---- MODULE Spec2Model ----
(***************************************************************************)
(* Model of the resume builder (builder.js): the top-level run of main(),  *)
(* the generate/validate retry loops of generateCoverLetter and            *)
(* generateTailoredResume, and the verdict parsing of validateContent;     *)
(* and of convertToPdf (lib/pdf-converter.js): the layout of the lines,    *)
(* the page breaks and the stamping of the page numbers.                   *)
(*                                                                         *)
(* Texts are sequences of one-character strings, so that trim, startsWith  *)
(* and the regular-expression replacements are computed, not assumed.      *)
(* One action is one continuation of the async code: it runs from the      *)
(* completion of an awaited I/O operation to the next await (or to         *)
(* process.exit).  pc names the I/O operation that is in flight.           *)
(***************************************************************************)
EXTENDS Integers, Sequences, FiniteSets, TLC

\* ------------------------------------------------------------------------
\* Bounds of the model
\* ------------------------------------------------------------------------

\* number of distinct raw texts the generation service may answer with
NumDrafts == 2

\* number of distinct raw texts the validation service may answer with
NumResponses == 3

\* ------------------------------------------------------------------------
\* Program constants
\* ------------------------------------------------------------------------

maxAttempts == 3

\* wrapText's default width
DefaultWidth == 80

\* ------------------------------------------------------------------------
\* Strings
\* ------------------------------------------------------------------------

\* the characters String.prototype.trim and the class \s remove
WhiteSpace == {" ", "\n", "\t"}

\* the grave accent (U+0060), which a TLA+ string cannot hold
Backtick == "U+0060"

VALID == <<"V", "A", "L", "I", "D">>

INVALID_COLON == <<"I", "N", "V", "A", "L", "I", "D", ":">>

RECURSIVE TrimStart(_)
TrimStart(s) ==
  IF s # <<>> /\ Head(s) \in WhiteSpace THEN TrimStart(Tail(s)) ELSE s

RECURSIVE TrimEnd(_)
TrimEnd(s) ==
  IF s # <<>> /\ s[Len(s)] \in WhiteSpace
    THEN TrimEnd(SubSeq(s, 1, Len(s) - 1))
    ELSE s

Trim(s) == TrimEnd(TrimStart(s))

StartsWith(s, p) == Len(s) >= Len(p) /\ SubSeq(s, 1, Len(p)) = p

\* variant: the prefix is removed without the white space after it
StripInvalidPrefix_NoWhitespace(s) ==
  IF StartsWith(s, INVALID_COLON)
    THEN SubSeq(s, Len(INVALID_COLON) + 1, Len(s))
    ELSE s

\* s.replace(/^INVALID:\s*/, '')
StripInvalidPrefix(s) ==
  IF StartsWith(s, INVALID_COLON)
    THEN TrimStart(SubSeq(s, Len(INVALID_COLON) + 1, Len(s)))
    ELSE s

\* variant: the replacement lacks the g flag and removes one occurrence
RemoveAll_FirstOnly(s, pat) ==
  IF ~(\E i \in 0..(Len(s) - Len(pat)) : SubSeq(s, i + 1, i + Len(pat)) = pat)
    THEN s
    ELSE LET i == CHOOSE j \in 0..(Len(s) - Len(pat)) :
                    /\ SubSeq(s, j + 1, j + Len(pat)) = pat
                    /\ \A k \in 0..(j - 1) : SubSeq(s, k + 1, k + Len(pat)) # pat
         IN SubSeq(s, 1, i) \o SubSeq(s, i + Len(pat) + 1, Len(s))

\* s.replace(/pat/g, '') for a literal pattern: leftmost non-overlapping
\* occurrences are removed, the result is not rescanned
RECURSIVE RemoveAll(_, _)
RemoveAll(s, pat) ==
  IF Len(s) < Len(pat) THEN s
  ELSE IF StartsWith(s, pat)
    THEN RemoveAll(SubSeq(s, Len(pat) + 1, Len(s)), pat)
    ELSE <<Head(s)>> \o RemoveAll(Tail(s), pat)

\* the prefix of s up to, not including, the first line terminator
RECURSIVE RestOfLine(_)
RestOfLine(s) ==
  IF s = <<>> \/ Head(s) = "\n" THEN <<>> ELSE <<Head(s)>> \o RestOfLine(Tail(s))

\* s.replace(/^\s*\/\/.*$/gm, ''): atLineStart tells whether the scan
\* position is the start of the input or follows a line terminator
RECURSIVE RemoveCommentLines(_, _)
RemoveCommentLines(s, atLineStart) ==
  IF s = <<>> THEN <<>>
  ELSE LET body == TrimStart(s)
       IN IF atLineStart /\ StartsWith(body, <<"/", "/">>)
            THEN LET matched == (Len(s) - Len(body)) + Len(RestOfLine(body))
                 IN RemoveCommentLines(SubSeq(s, matched + 1, Len(s)), FALSE)
            ELSE <<Head(s)>> \o RemoveCommentLines(Tail(s), Head(s) = "\n")

\* s.split(sep) for a one-character separator
RECURSIVE Split(_, _)
Split(s, sep) ==
  IF \A i \in 1..Len(s) : s[i] # sep THEN <<s>>
  ELSE LET i == CHOOSE j \in 1..Len(s) :
                  s[j] = sep /\ \A k \in 1..(j - 1) : s[k] # sep
       IN <<SubSeq(s, 1, i - 1)>> \o Split(SubSeq(s, i + 1, Len(s)), sep)

\* parts.join(sep)
RECURSIVE Join(_, _)
Join(parts, sep) ==
  IF parts = <<>> THEN <<>>
  ELSE IF Len(parts) = 1 THEN parts[1]
  ELSE parts[1] \o <<sep>> \o Join(Tail(parts), sep)

\* variant: the word that does not fit is not carried to the next line
RECURSIVE WrapWords_LoseWord(_, _, _)
WrapWords_LoseWord(words, st, width) ==
  IF words = <<>> THEN st
  ELSE LET word == Head(words)
       IN IF Len(st.currentLine) + Len(word) + 1 <= width
            THEN WrapWords_LoseWord(Tail(words),
                   [st EXCEPT !.currentLine =
                      st.currentLine
                        \o (IF st.currentLine # <<>> THEN <<" ">> ELSE <<>>)
                        \o word],
                   width)
            ELSE WrapWords_LoseWord(Tail(words),
                   [wrappedLine |->
                      st.wrappedLine
                        \o (IF st.wrappedLine # <<>> THEN <<"\n">> ELSE <<>>)
                        \o st.currentLine,
                    currentLine |-> <<>>],
                   width)

\* the for-loop of wrapText over the words of one long line; st carries
\* wrappedLine and currentLine
RECURSIVE WrapWords(_, _, _)
WrapWords(words, st, width) ==
  IF words = <<>> THEN st
  ELSE LET word == Head(words)
       IN IF Len(st.currentLine) + Len(word) + 1 <= width
            THEN WrapWords(Tail(words),
                   [st EXCEPT !.currentLine =
                      st.currentLine
                        \o (IF st.currentLine # <<>> THEN <<" ">> ELSE <<>>)
                        \o word],
                   width)
            ELSE WrapWords(Tail(words),
                   [wrappedLine |->
                      st.wrappedLine
                        \o (IF st.wrappedLine # <<>> THEN <<"\n">> ELSE <<>>)
                        \o st.currentLine,
                    currentLine |-> word],
                   width)

\* variant: a line is taken apart and put together whatever its length
WrapLine_NoShortcut(line, width) ==
  LET st == WrapWords(Split(line, " "),
                      [wrappedLine |-> <<>>, currentLine |-> <<>>], width)
  IN st.wrappedLine
       \o (IF st.wrappedLine # <<>> THEN <<"\n">> ELSE <<>>)
       \o st.currentLine

WrapLine(line, width) ==
  IF Len(line) <= width THEN line
  ELSE LET st == WrapWords(Split(line, " "),
                           [wrappedLine |-> <<>>, currentLine |-> <<>>], width)
       IN st.wrappedLine
            \o (IF st.wrappedLine # <<>> THEN <<"\n">> ELSE <<>>)
            \o st.currentLine

wrapText(text, width) ==
  LET lines == Split(text, "\n")
  IN Join([i \in 1..Len(lines) |-> WrapLine(lines[i], width)], "\n")

\* ------------------------------------------------------------------------
\* The generative-text service (external): what a call may come back with
\* ------------------------------------------------------------------------

\* raw texts of a generation response: padded Markdown, a fenced block,
\* a text with a comment line, a plain text
DraftTable ==
  << <<" ", "#", " ", "A", "\n">>,
     <<Backtick, Backtick, Backtick, "\n", "B", "\n",
       Backtick, Backtick, Backtick>>,
     <<"/", "/", "c", "\n", "D">>,
     <<"E", " ", "F">> >>

\* raw texts of a validation response: a padded VALID, an INVALID: with a
\* padded reason, an answer outside the protocol, a second INVALID:, an
\* INVALID: without a reason, a text that merely begins with VALID
ResponseTable ==
  << <<" ", "V", "A", "L", "I", "D", "\n">>,
     <<"I", "N", "V", "A", "L", "I", "D", ":", " ", " ", "x", " ">>,
     <<"O", "K", " ">>,
     <<"I", "N", "V", "A", "L", "I", "D", ":", "y">>,
     <<"I", "N", "V", "A", "L", "I", "D", ":", " ">>,
     <<"V", "A", "L", "I", "D", "?">> >>

RawDrafts == {DraftTable[i] : i \in 1..NumDrafts}

RawResponses == {ResponseTable[i] : i \in 1..NumResponses}

\* message of the error axios.post rejects with (network, HTTP status)
NetErr == <<"N", "e", "t">>

\* message of the TypeError of reading choices[0].message.content from a
\* response body that lacks it
TypeErr == <<"T", "y", "p", "e">>

\* outcomes of one axios.post
Failure(k) == [kind |-> k, text |-> <<>>]

Answer(t) == [kind |-> "text", text |-> t]

GenOutcomes ==
  {Failure("transport"), Failure("malformed")} \cup {Answer(t) : t \in RawDrafts}

ValOutcomes ==
  {Failure("transport"), Failure("malformed")} \cup {Answer(t) : t \in RawResponses}

ErrorMessage(o) == IF o.kind = "transport" THEN NetErr ELSE TypeErr

\* the verdict the validation prompt asks the service to express
Verdict(raw) ==
  IF StartsWith(Trim(raw), VALID) THEN "Valid"
  ELSE IF StartsWith(Trim(raw), INVALID_COLON) THEN "Invalid"
  ELSE "ProtocolError"

\* ------------------------------------------------------------------------
\* validateContent and the clean-up of generated text
\* ------------------------------------------------------------------------

\* s.includes(p)
Includes(s, p) ==
  \E i \in 0..(Len(s) - Len(p)) : SubSeq(s, i + 1, i + Len(p)) = p

\* variant: the verdict is looked for anywhere in the response
validateContent_Includes(o) ==
  IF o.kind # "text" THEN [ok |-> FALSE, message |-> ErrorMessage(o)]
  ELSE LET validationResult == Trim(o.text)
       IN IF ~Includes(validationResult, VALID)
            THEN [ok |-> FALSE, message |-> validationResult]
            ELSE [ok |-> TRUE, message |-> <<>>]

\* variant: the response is not trimmed
validateContent_NoTrim(o) ==
  IF o.kind # "text" THEN [ok |-> FALSE, message |-> ErrorMessage(o)]
  ELSE LET validationResult == o.text
       IN IF ~StartsWith(Trim(validationResult), VALID)
            THEN [ok |-> FALSE, message |-> validationResult]
            ELSE [ok |-> TRUE, message |-> <<>>]

\* validateContent: [ok |-> TRUE] when it returns true, otherwise the
\* message of the error it throws
validateContent(o) ==
  IF o.kind # "text" THEN [ok |-> FALSE, message |-> ErrorMessage(o)]
  ELSE LET validationResult == Trim(o.text)
       IN IF ~StartsWith(validationResult, VALID)
            THEN [ok |-> FALSE, message |-> validationResult]
            ELSE [ok |-> TRUE, message |-> <<>>]

\* const generatedResume = response...content.trim()
CleanResume(raw) == Trim(raw)

\* the clean-up chain shared by generateCoverLetter and generateJobSummary
CleanText(raw) ==
  LET fence == <<Backtick, Backtick, Backtick>>
      fenceMd == fence \o <<"m", "a", "r", "k", "d", "o", "w", "n">>
  IN Trim(RemoveCommentLines(RemoveAll(RemoveAll(Trim(raw), fenceMd), fence),
                             TRUE))

CleanCoverLetter(raw) == wrapText(CleanText(raw), DefaultWidth)

Clean(d, raw) == IF d = "resume" THEN CleanResume(raw) ELSE CleanCoverLetter(raw)

\* ------------------------------------------------------------------------
\* The retry loop of generateTailoredResume / generateCoverLetter
\* ------------------------------------------------------------------------

NoError == [set |-> FALSE, message |-> <<>>]

Err(m) == [set |-> TRUE, message |-> m]

\* the locals as declared at function entry
InitLocals ==
  [attempt |-> 0, lastError |-> NoError, previousValidationErrors |-> <<>>]

\* variant: one iteration too many
LoopCondition_OffByOne(att) == att <= maxAttempts

\* while (attempt < maxAttempts)
LoopCondition(att) == att < maxAttempts

\* if (attempt < maxAttempts) { ...; continue; } in the inner catch
RetryAfterInvalid(att) == att < maxAttempts

\* variant: the error is recorded only when another attempt follows
OuterCatch_OnlyRetrying(L, message) ==
  IF L.attempt < maxAttempts THEN [L EXCEPT !.lastError = Err(message)] ELSE L

\* catch (error) of the attempt: lastError = error
OuterCatch(L, message) == [L EXCEPT !.lastError = Err(message)]

\* variant: the accumulator keeps only the latest reason
InnerCatch_Overwrite(L, message) ==
  LET pushed == [L EXCEPT !.previousValidationErrors =
                            <<StripInvalidPrefix(message)>>]
  IN IF RetryAfterInvalid(L.attempt) THEN pushed ELSE OuterCatch(pushed, message)

\* catch (validationError): push the reason, then continue or rethrow
\* (the rethrown error is caught by the attempt's outer catch)
InnerCatch(L, message) ==
  LET pushed == [L EXCEPT !.previousValidationErrors =
                            Append(@, StripInvalidPrefix(message))]
  IN IF RetryAfterInvalid(L.attempt) THEN pushed ELSE OuterCatch(pushed, message)

\* the message of the error thrown after the loop; lastError.message of a
\* null lastError is a TypeError instead
TerminalMessage(d, err) ==
  IF err.set THEN <<"Failed", d, ":">> \o err.message ELSE TypeErr

\* variant: the instruction is given on every attempt
BuildPrompt_EveryAttempt(d, att, errors, hallucinate) ==
  [doc |-> d,
   attempt |-> att,
   errors |-> errors,
   hallucinate |-> d = "cover" /\ hallucinate]

\* what the prompt of an attempt embeds
BuildPrompt(d, att, errors, hallucinate) ==
  [doc |-> d,
   attempt |-> att,
   errors |-> errors,
   hallucinate |-> d = "cover" /\ hallucinate /\ att = 1]

\* ------------------------------------------------------------------------
\* getSuggestedNames (builder.js): the names of the output folder and files
\* ------------------------------------------------------------------------

MaxNameLength == 50

\* the characters /[^a-z0-9-]/g leaves in a line
NameChars ==
  {"a", "b", "c", "d", "e", "f", "g", "h", "i", "j", "k", "l", "m", "n", "o",
   "p", "q", "r", "s", "t", "u", "v", "w", "x", "y", "z",
   "0", "1", "2", "3", "4", "5", "6", "7", "8", "9", "-"}

\* line.replace(/[^a-z0-9-]/g, '')
StripInvalidChars(line) == SelectSeq(line, LAMBDA c : c \in NameChars)

\* variant: the hyphens at the ends of a name are not looked at
isValidName_InnerOnly(name) ==
  /\ Len(name) > 0
  /\ Len(name) <= MaxNameLength
  /\ \A i \in 1..Len(name) : name[i] \in NameChars
  /\ ~Includes(name, <<"-", "-">>)

isValidName(name) ==
  /\ Len(name) > 0
  /\ Len(name) <= MaxNameLength
  /\ \A i \in 1..Len(name) : name[i] \in NameChars
  /\ ~Includes(name, <<"-", "-">>)
  /\ ~StartsWith(name, <<"-">>)
  /\ name[Len(name)] # "-"

Names(folder, resume, coverLetter) ==
  [folder |-> folder, resume |-> resume, coverLetter |-> coverLetter]

\* the names of the catch block, from the date of the run (YYYY-MM-DD)
DefaultNames(timestamp) ==
  Names(<<"a", "p", "p", "l", "i", "c", "a", "t", "i", "o", "n", "-">> \o timestamp,
        <<"r", "e", "s", "u", "m", "e", "-">> \o timestamp,
        <<"c", "o", "v", "e", "r", "-", "l", "e", "t", "t", "e", "r", "-">>
          \o timestamp)

\* the lines of the response after trim, split and the two maps
CleanedNameLines(content) ==
  LET lines == Split(Trim(content), "\n")
  IN [i \in 1..Len(lines) |-> StripInvalidChars(Trim(lines[i]))]

\* the try block: the call fails (the transport, or a response without
\* choices[0].message.content), a missing line is undefined and reading its
\* length throws, an invalid or inconsistent name throws
TrySuggestedNames(outcome, content) ==
  IF outcome # "ok" THEN [threw |-> TRUE, names |-> Names(<<>>, <<>>, <<>>)]
  ELSE LET lines == CleanedNameLines(content)
       IN IF Len(lines) < 3
            THEN [threw |-> TRUE, names |-> Names(<<>>, <<>>, <<>>)]
          ELSE IF \E i \in 1..3 : ~isValidName(lines[i])
            THEN [threw |-> TRUE, names |-> Names(<<>>, <<>>, <<>>)]
          ELSE IF ~Includes(lines[2], lines[1]) \/ ~Includes(lines[3], lines[1])
            THEN [threw |-> TRUE, names |-> Names(<<>>, <<>>, <<>>)]
          ELSE [threw |-> FALSE, names |-> Names(lines[1], lines[2], lines[3])]

\* the try block and its catch: whether the function threw, whether it
\* fell back to the defaults, and the names it returned
getSuggestedNames(outcome, content, timestamp) ==
  LET try == TrySuggestedNames(outcome, content)
  IN [threw |-> FALSE,
      fallback |-> try.threw,
      names |-> IF try.threw THEN DefaultNames(timestamp) ELSE try.names]

\* ------------------------------------------------------------------------
\* convertToPdf (lib/pdf-converter.js): the text of one line
\* ------------------------------------------------------------------------

BulletIndent == 10

BulletMarker == <<"-">>

\* the least position i >= from at which pat occurs in s, or 0
IndexOf(s, pat, from) ==
  LET hits == {i \in from..(Len(s) - Len(pat) + 1) :
                 SubSeq(s, i, i + Len(pat) - 1) = pat}
  IN IF hits = {} THEN 0 ELSE CHOOSE i \in hits : \A j \in hits : i <= j

\* /\[.*?\]\(.*?\)/ tried at position i: the position of the last character
\* of the match, or 0
LinkEnd(s, i) ==
  IF i <= Len(s) /\ s[i] = "["
    THEN LET j == IndexOf(s, <<"]", "(">>, i + 1)
         IN IF j = 0 THEN 0 ELSE IndexOf(s, <<")">>, j + 2)
    ELSE 0

\* /\*\*.*?\*\*/ tried at position i
BoldEnd(s, i) ==
  IF IndexOf(s, <<"*", "*">>, i) = i
    THEN LET j == IndexOf(s, <<"*", "*">>, i + 2)
         IN IF j = 0 THEN 0 ELSE j + 1
    ELSE 0

\* /https?:\/\// tried at position i: the length of the match, or 0
SchemeLength(s, i) ==
  IF IndexOf(s, <<"h", "t", "t", "p", "s", ":", "/", "/">>, i) = i THEN 8
  ELSE IF IndexOf(s, <<"h", "t", "t", "p", ":", "/", "/">>, i) = i THEN 7
  ELSE 0

\* /https?:\/\/\S+/ tried at position i
UrlEnd(s, i) ==
  LET n == SchemeLength(s, i)
      k == i + n
  IN IF n = 0 \/ k > Len(s) THEN 0
     ELSE IF s[k] \in WhiteSpace THEN 0
     ELSE LET stops == {e \in k..Len(s) : s[e] \in WhiteSpace}
          IN IF stops = {} THEN Len(s)
             ELSE (CHOOSE e \in stops : \A f \in stops : e <= f) - 1

\* the alternation link | bold | URL tried at position i
MatchEnd(s, i) ==
  IF LinkEnd(s, i) # 0 THEN LinkEnd(s, i)
  ELSE IF BoldEnd(s, i) # 0 THEN BoldEnd(s, i)
  ELSE UrlEnd(s, i)

\* String.prototype.split with the capturing pattern: the text before each
\* match and the match, then the rest; i is the position the pattern is
\* tried at, g the start of the text not yet given out
RECURSIVE SplitMarkup(_, _, _)
SplitMarkup(s, i, g) ==
  IF i > Len(s) THEN <<SubSeq(s, g, Len(s))>>
  ELSE LET e == MatchEnd(s, i)
       IN IF e = 0 THEN SplitMarkup(s, i + 1, g)
          ELSE <<SubSeq(s, g, i - 1), SubSeq(s, i, e)>>
                 \o SplitMarkup(s, e + 1, e + 1)

\* .filter(Boolean)
Parts(s) == SelectSeq(SplitMarkup(s, 1, 1), LAMBDA p : p # <<>>)

\* part.match(/^\[.*?\]\(.*?\)$/)
IsLinkPart(p) ==
  /\ Len(p) >= 4
  /\ p[1] = "["
  /\ p[Len(p)] = ")"
  /\ \E j \in 2..(Len(p) - 2) : p[j] = "]" /\ p[j + 1] = "("

\* part.match(/^https?:\/\/\S+$/)
IsUrlPart(p) ==
  LET n == SchemeLength(p, 1)
  IN /\ n > 0
     /\ Len(p) > n
     /\ \A k \in (n + 1)..Len(p) : p[k] \notin WhiteSpace

\* part.match(/^\*\*.*\*\*$/)
IsBoldPart(p) ==
  /\ Len(p) >= 4
  /\ SubSeq(p, 1, 2) = <<"*", "*">>
  /\ SubSeq(p, Len(p) - 1, Len(p)) = <<"*", "*">>

SentencePunctuation == {".", ",", ";", ":", "!", "?"}

\* part.replace(/[.,;:!?]$/, '')
StripTrailingPunctuation(part) ==
  IF part # <<>> /\ part[Len(part)] \in SentencePunctuation
    THEN SubSeq(part, 1, Len(part) - 1)
    ELSE part

Run(class, text, link, continued) ==
  [class |-> class, text |-> text, link |-> link, continued |-> continued]

\* variant: every run is written in continued mode
Continued_Always(i, n) == TRUE

\* options.continued = i < parts.length - 1, for the 1-based position i
Continued(i, n) == i < n

\* one iteration of the loop over the parts: the doc.text call it makes
EmitPart(part, continued) ==
  IF IsLinkPart(part)
    THEN LET i == CHOOSE k \in 1..Len(part) :
                    LinkEnd(part, k) # 0 /\ \A m \in 1..(k - 1) : LinkEnd(part, m) = 0
             j == IndexOf(part, <<"]", "(">>, i + 1)
             e == LinkEnd(part, i)
         IN Run("link", SubSeq(part, i + 1, j - 1), SubSeq(part, j + 2, e - 1),
                continued)
  ELSE IF IsUrlPart(part)
    THEN LET url == StripTrailingPunctuation(part)
         IN Run("url", url, url, continued)
  ELSE IF IsBoldPart(part)
    THEN Run("bold", SubSeq(part, 3, Len(part) - 2), <<>>, continued)
  ELSE Run("plain", part, <<>>, continued)

\* variant: the heading tests do not look at the space after the marks
LineKind_MarksOnly(line) ==
  IF Trim(line) = <<>> THEN "skipped"
  ELSE IF StartsWith(line, <<"#">>) THEN "h1"
  ELSE IF StartsWith(line, <<"#", "#">>) THEN "h2"
  ELSE IF StartsWith(line, <<"#", "#", "#">>) THEN "h3"
  ELSE IF StartsWith(line, <<"-", " ">>) THEN "bullet"
  ELSE "paragraph"

\* the branch of the for-loop a line takes
LineKind(line) ==
  IF Trim(line) = <<>> THEN "skipped"
  ELSE IF StartsWith(line, <<"#", " ">>) THEN "h1"
  ELSE IF StartsWith(line, <<"#", "#", " ">>) THEN "h2"
  ELSE IF StartsWith(line, <<"#", "#", "#", " ">>) THEN "h3"
  ELSE IF StartsWith(line, <<"-", " ">>) THEN "bullet"
  ELSE "paragraph"

\* the doc.text calls made for one line, with the options of the line
EmitLine(line) ==
  LET kind == LineKind(line)
  IN IF kind = "skipped"
       THEN [kind |-> kind, align |-> "none", indent |-> 0, runs |-> <<>>]
     ELSE IF kind \in {"h1", "h2", "h3"}
       THEN [kind |-> kind, align |-> "default", indent |-> 0,
             runs |-> <<Run("heading",
                            SubSeq(line, IndexOf(line, <<" ">>, 1) + 1, Len(line)),
                            <<>>, FALSE)>>]
     ELSE LET bullet == StartsWith(line, <<"-", " ">>)
              textToWrite == IF bullet
                               THEN BulletMarker \o <<" ">>
                                      \o SubSeq(line, 3, Len(line))
                               ELSE line
              parts == Parts(textToWrite)
          IN [kind |-> kind,
              align |-> IF bullet THEN "left" ELSE "justify",
              indent |-> IF bullet THEN BulletIndent ELSE 0,
              runs |-> [i \in 1..Len(parts) |->
                          EmitPart(parts[i], Continued(i, Len(parts)))]]

\* ------------------------------------------------------------------------
\* State
\* ------------------------------------------------------------------------

VARIABLES
  pc,        \* the awaited operation in flight, or "done" after process.exit
  exitCode,  \* -1 while the process runs, then the code given to process.exit
  argv,      \* the command-line flags cover and hallucinate
  masterExists,  \* whether master-resume.md can be read
  names,     \* "none", then "suggested" or "default" (getSuggestedNames)
  files,     \* the output files of the run
  doc,       \* the document whose generate function is running
  attempt, lastError, previousValidationErrors,  \* its locals
  prompt,    \* the prompt of the generation call of the current attempt
  generated, \* the cleaned text of the current attempt (or of the summary)
  result,    \* per document, the text its generate function returned
  terminalError,  \* the message of the error the generate function threw
  failures,  \* history: the failed attempts of the running generate function
  validated, \* history: the <<doc, text>> pairs the service answered VALID for
  calls,     \* history: the number of calls issued, per kind
  inflight,  \* history: the service calls issued and not yet settled
  settled,   \* history: the service calls that settled, with their success
  namesOutcome,    \* history: how the call of getSuggestedNames settled
  lastValidation,  \* history: the latest validation call and its outcome
  exitCause  \* history: why the process exited

vars ==
  <<pc, exitCode, argv, masterExists, names, files, doc, attempt, lastError,
    previousValidationErrors, prompt, generated, result, terminalError,
    failures, validated, calls, inflight, settled, namesOutcome,
    lastValidation, exitCause>>

\* the state of one call of convertToPdf (lib/pdf-converter.js)
VARIABLES
  rpc,       \* "read", "layout", "stamp", "end" (doc.end() called), "settled"
  inputExists,    \* whether the input file can be read
  outputCreated,  \* whether createWriteStream(outputPath) was called
  total,     \* the number of lines of the input
  nLines,    \* the number of lines the for-loop has consumed
  y,         \* doc.y, in units
  pages,     \* the number of pages in the page buffer
  range,     \* bufferedPageRange().count as read before the stamping loop
  stamped,   \* the number of iterations the stamping loop has made
  footers,   \* per page, the footer texts written on it, in order
  promise,   \* "none", "pending", "resolved", "rejected"
  commandExit,    \* exit code of the standalone conversion command, or -1
  stream,    \* the write stream: listeners, events delivered, settlements
  lastLine   \* history: how the latest line was laid out

rvars ==
  <<rpc, inputExists, outputCreated, total, nLines, y, pages, range, stamped,
    footers, promise, commandExit, stream, lastLine>>

\* one application of a function of the text: fn names it, arg is its
\* input and out what it returned
VARIABLES fn, arg, out

tvars == <<fn, arg, out>>

NoArg == [text |-> <<>>, width |-> 0, outcome |-> "none", timestamp |-> <<>>]

NoOut ==
  [applied |-> FALSE,
   line |-> [kind |-> "none", align |-> "none", indent |-> 0, runs |-> <<>>],
   text |-> <<>>,
   again |-> <<>>,
   names |-> [threw |-> FALSE, fallback |-> FALSE,
              names |-> Names(<<>>, <<>>, <<>>)]]

\* no function of the text is followed on its own
TextIdle ==
  /\ fn = "none"
  /\ arg = NoArg
  /\ out = NoOut

NoLine ==
  [kind |-> "none", measured |-> 0, rows |-> 0, yBefore |-> 0,
   pagesBefore |-> 0, forced |-> FALSE, placedAt |-> 0, bottom |-> 0,
   overflow |-> 0, gap |-> FALSE, usedBefore |-> FALSE, used |-> FALSE]

\* listening: the 'finish' and 'error' listeners are registered; events:
\* the events the stream has emitted; lost: an 'error' was emitted with no
\* listener; settles: how often the promise went from pending to settled
NoStream == [listening |-> FALSE, events |-> <<>>, lost |-> FALSE, settles |-> 0]

\* no conversion is modelled in the run of main
RenderIdle ==
  /\ rpc = "idle"
  /\ inputExists = FALSE
  /\ outputCreated = FALSE
  /\ total = 0
  /\ nLines = 0
  /\ y = 0
  /\ pages = 0
  /\ range = 0
  /\ stamped = 0
  /\ footers = <<>>
  /\ promise = "none"
  /\ commandExit = -1
  /\ stream = NoStream
  /\ lastLine = NoLine

Docs == {"cover", "resume"}

FileNames == {"summary", "cover", "md", "pdf"}

Absent == [exists |-> FALSE, content |-> <<>>]

File(content) == [exists |-> TRUE, content |-> content]

\* one axios.post to the service: the naming call, the summary call, the
\* generation or the validation call of attempt n of document d
Call(kind, d, n) == [kind |-> kind, doc |-> d, attempt |-> n]

\* the service call whose await the running continuation resumes from
CurrentCall ==
  IF pc \in {"gen", "val"} THEN Call(pc, doc, attempt)
  ELSE IF pc \in {"names", "summary"} THEN Call(pc, "none", 0)
  ELSE Call("none", "none", 0)

\* await: the awaited call has settled; ok tells whether it gave a text
\* (for a validation call: whether validateContent returned true)
Settle(ok) == settled' = settled \cup {[call |-> CurrentCall, ok |-> ok]}

Locals ==
  [attempt |-> attempt,
   lastError |-> lastError,
   previousValidationErrors |-> previousValidationErrors]

Init ==
  /\ pc = "readMaster"
  /\ exitCode = -1
  /\ argv \in [cover : BOOLEAN, hallucinate : BOOLEAN]
  /\ masterExists \in BOOLEAN
  /\ names = "none"
  /\ files = [f \in FileNames |-> Absent]
  /\ doc = "none"
  /\ attempt = InitLocals.attempt
  /\ lastError = InitLocals.lastError
  /\ previousValidationErrors = InitLocals.previousValidationErrors
  /\ prompt = BuildPrompt("none", 0, <<>>, FALSE)
  /\ generated = <<>>
  /\ result = [d \in Docs |-> Absent]
  /\ terminalError = <<>>
  /\ failures = <<>>
  /\ validated = {}
  /\ calls = [names |-> 0, summary |-> 0, pdf |-> 0,
              gen |-> [d \in Docs |-> 0], val |-> [d \in Docs |-> 0]]
  /\ inflight = {}
  /\ settled = {}
  /\ namesOutcome = "none"
  /\ lastValidation = [doc |-> "none", candidate |-> <<>>, outcome |-> Failure("none")]
  /\ exitCause = "none"
  /\ RenderIdle
  /\ TextIdle

\* process.exit(code)
Exit(code, cause) ==
  /\ pc' = "done"
  /\ exitCode' = code
  /\ exitCause' = cause

\* variant: the catch around the cover letter exits without a failure code
ExitCodeOnThrow_CoverZero(d) == IF d = "cover" THEN 0 ELSE 1

\* the exit code of main's handler of an error thrown by a generate
\* function: the catch around the cover letter, the catch of main
ExitCodeOnThrow(d) == 1

\* one evaluation of the loop condition with locals L: either the next
\* attempt starts and its generation call is issued, or the loop ends, the
\* terminal error is thrown and main's handler exits
NextIteration(d, L) ==
  /\ lastError' = L.lastError
  /\ previousValidationErrors' = L.previousValidationErrors
  /\ IF LoopCondition(L.attempt)
       THEN /\ attempt' = L.attempt + 1
            /\ prompt' = BuildPrompt(d, L.attempt + 1,
                                     L.previousValidationErrors, argv.hallucinate)
            /\ pc' = "gen"
            /\ calls' = [calls EXCEPT !.gen[d] = @ + 1]
            /\ inflight' = (inflight \ {CurrentCall})
                              \cup {Call("gen", d, L.attempt + 1)}
            /\ UNCHANGED <<exitCode, exitCause, terminalError>>
       ELSE /\ attempt' = L.attempt
            /\ terminalError' = TerminalMessage(d, L.lastError)
            /\ Exit(ExitCodeOnThrow(d), "budget")
            /\ inflight' = inflight \ {CurrentCall}
            /\ UNCHANGED <<prompt, calls>>

\* variant: the accumulator of validation reasons is shared by the two
\* generate functions
EnterGenerate_SharedAccumulator(d) ==
  /\ doc' = d
  /\ failures' = <<>>
  /\ NextIteration(d, [InitLocals EXCEPT !.previousValidationErrors =
                                           previousValidationErrors])

\* entry of generateCoverLetter / generateTailoredResume
EnterGenerate(d) ==
  /\ doc' = d
  /\ failures' = <<>>
  /\ NextIteration(d, InitLocals)

\* ------------------------------------------------------------------------
\* main
\* ------------------------------------------------------------------------

\* variant: an unreadable master document is replaced by an empty one
MainReadMaster_Fallback ==
  /\ pc = "readMaster"
  /\ pc' = "names"
  /\ calls' = [calls EXCEPT !.names = @ + 1]
  /\ inflight' = inflight \cup {Call("names", "none", 0)}
  /\ UNCHANGED <<exitCode, exitCause, argv, masterExists, names, files, doc,
                 attempt, lastError, previousValidationErrors, prompt,
                 generated, result, terminalError, failures, validated,
                 settled, namesOutcome, lastValidation>>
  /\ UNCHANGED <<rvars, tvars>>

\* readFile(MASTER_RESUME_PATH) settles; on success the job description is
\* taken and getSuggestedNames issues its call
MainReadMaster ==
  /\ pc = "readMaster"
  /\ IF masterExists
       THEN /\ pc' = "names"
            /\ calls' = [calls EXCEPT !.names = @ + 1]
            /\ inflight' = inflight \cup {Call("names", "none", 0)}
            /\ UNCHANGED <<exitCode, exitCause>>
       ELSE /\ Exit(1, "input")
            /\ UNCHANGED <<calls, inflight>>
  /\ UNCHANGED <<argv, masterExists, names, files, doc, attempt, lastError,
                 previousValidationErrors, prompt, generated, result,
                 terminalError, failures, validated, settled, namesOutcome,
                 lastValidation>>
  /\ UNCHANGED <<rvars, tvars>>

\* the call of getSuggestedNames settles: suggested names, or the defaults
\* on any error; generateJobSummary issues its call
GetSuggestedNames ==
  /\ pc = "names"
  /\ \E o \in {"ok", "transport", "malformed", "badformat"} :
       /\ names' = IF o = "ok" THEN "suggested" ELSE "default"
       /\ namesOutcome' = o
       /\ Settle(o \in {"ok", "badformat"})
  /\ pc' = "summary"
  /\ calls' = [calls EXCEPT !.summary = @ + 1]
  /\ inflight' = (inflight \ {CurrentCall}) \cup {Call("summary", "none", 0)}
  /\ UNCHANGED <<exitCode, argv, masterExists, files, doc, attempt, lastError,
                 previousValidationErrors, prompt, generated, result,
                 terminalError, failures, validated, lastValidation,
                 exitCause>>
  /\ UNCHANGED <<rvars, tvars>>

\* the call of generateJobSummary settles: an error is rethrown to main's
\* catch, a text is cleaned, wrapped and handed to writeFile
GenerateJobSummary ==
  /\ pc = "summary"
  /\ \E o \in {Failure("transport"), Failure("malformed"), Answer(DraftTable[2])} :
       /\ Settle(o.kind = "text")
       /\ IF o.kind = "text"
            THEN /\ generated' = wrapText(CleanText(o.text), DefaultWidth)
                 /\ pc' = "summaryWrite"
                 /\ UNCHANGED <<exitCode, exitCause>>
            ELSE /\ Exit(1, "summary")
                 /\ UNCHANGED generated
  /\ inflight' = inflight \ {CurrentCall}
  /\ UNCHANGED <<argv, masterExists, names, files, doc, attempt, lastError,
                 previousValidationErrors, prompt, result, terminalError,
                 failures, validated, calls, namesOutcome, lastValidation>>
  /\ UNCHANGED <<rvars, tvars>>

\* variant: a failed writeFile(summaryPath) is ignored and Step 3 goes on
SaveJobSummary_IgnoreFailure ==
  /\ pc = "summaryWrite"
  /\ \E ok \in BOOLEAN :
       /\ files' = [files EXCEPT !.summary = IF ok THEN File(generated) ELSE @]
       /\ EnterGenerate("cover")
  /\ UNCHANGED <<argv, masterExists, names, generated, result, validated,
                 settled, namesOutcome, lastValidation>>
  /\ UNCHANGED <<rvars, tvars>>

\* writeFile(summaryPath) settles; Step 3 then calls generateCoverLetter
SaveJobSummary ==
  /\ pc = "summaryWrite"
  /\ \E ok \in BOOLEAN :
       IF ok
         THEN /\ files' = [files EXCEPT !.summary = File(generated)]
              /\ EnterGenerate("cover")
         ELSE /\ Exit(1, "write")
              /\ UNCHANGED <<files, doc, attempt, lastError,
                             previousValidationErrors, prompt, terminalError,
                             failures, calls, inflight>>
  /\ UNCHANGED <<argv, masterExists, names, generated, result, validated,
                 settled, namesOutcome, lastValidation>>
  /\ UNCHANGED <<rvars, tvars>>

\* variant: validateContent is called without await, the candidate is
\* returned while the validation call is in flight
GenerationResponse_NoAwait ==
  /\ pc = "gen"
  /\ \E o \in GenOutcomes :
       /\ Settle(o.kind = "text")
       /\ IF o.kind = "text"
            THEN /\ generated' = Clean(doc, o.text)
                 /\ result' = [result EXCEPT ![doc] = File(Clean(doc, o.text))]
                 /\ pc' = "docWrite"
                 /\ calls' = [calls EXCEPT !.val[doc] = @ + 1]
                 /\ inflight' = (inflight \ {CurrentCall})
                                   \cup {Call("val", doc, attempt)}
                 /\ UNCHANGED <<exitCode, exitCause, attempt, lastError,
                                previousValidationErrors, prompt,
                                terminalError, failures>>
            ELSE /\ failures' = Append(failures,
                                  [kind |-> "generation",
                                   raw |-> ErrorMessage(o),
                                   text |-> <<>>])
                 /\ NextIteration(doc, OuterCatch(Locals, ErrorMessage(o)))
                 /\ UNCHANGED <<generated, result>>
  /\ UNCHANGED <<argv, masterExists, names, files, doc, validated,
                 namesOutcome, lastValidation>>
  /\ UNCHANGED <<rvars, tvars>>

\* the generation call of the current attempt settles
GenerationResponse ==
  /\ pc = "gen"
  /\ \E o \in GenOutcomes :
       /\ Settle(o.kind = "text")
       /\ IF o.kind = "text"
            THEN /\ generated' = Clean(doc, o.text)
                 /\ pc' = "val"
                 /\ calls' = [calls EXCEPT !.val[doc] = @ + 1]
                 /\ inflight' = (inflight \ {CurrentCall})
                                   \cup {Call("val", doc, attempt)}
                 /\ UNCHANGED <<exitCode, exitCause, attempt, lastError,
                                previousValidationErrors, prompt,
                                terminalError, failures>>
            ELSE /\ failures' = Append(failures,
                                  [kind |-> "generation",
                                   raw |-> ErrorMessage(o),
                                   text |-> <<>>])
                 /\ NextIteration(doc, OuterCatch(Locals, ErrorMessage(o)))
                 /\ UNCHANGED generated
  /\ UNCHANGED <<argv, masterExists, names, files, doc, result, validated,
                 namesOutcome, lastValidation>>
  /\ UNCHANGED <<rvars, tvars>>

\* the validation call of the current attempt settles
ValidationResponse ==
  /\ pc = "val"
  /\ \E o \in ValOutcomes :
       LET v == validateContent(o)
       IN /\ lastValidation' =
               [doc |-> doc, candidate |-> generated, outcome |-> o]
          /\ validated' =
               IF o.kind = "text" /\ Verdict(o.text) = "Valid"
                 THEN validated \cup {<<doc, generated>>}
                 ELSE validated
          /\ Settle(v.ok)
          /\ IF v.ok
               THEN /\ result' = [result EXCEPT ![doc] = File(generated)]
                    /\ pc' = "docWrite"
                    /\ inflight' = inflight \ {CurrentCall}
                    /\ UNCHANGED <<exitCode, exitCause, attempt, lastError,
                                   previousValidationErrors, prompt,
                                   terminalError, failures, calls>>
               ELSE /\ failures' = Append(failures,
                                     [kind |-> IF o.kind = "text"
                                                 THEN Verdict(o.text)
                                                 ELSE "validation",
                                      raw |-> IF o.kind = "text"
                                                THEN o.text
                                                ELSE ErrorMessage(o),
                                      text |-> generated])
                    /\ NextIteration(doc, InnerCatch(Locals, v.message))
                    /\ UNCHANGED result
  /\ UNCHANGED <<argv, masterExists, names, files, doc, generated,
                 namesOutcome>>
  /\ UNCHANGED <<rvars, tvars>>

\* writeFile(coverLetterPaths.txt) settles; Step 4 then calls
\* generateTailoredResume
SaveCoverLetter ==
  /\ pc = "docWrite"
  /\ doc = "cover"
  /\ \E ok \in BOOLEAN :
       IF ok
         THEN /\ files' = [files EXCEPT !.cover = File(result["cover"].content)]
              /\ EnterGenerate("resume")
         ELSE /\ Exit(1, "write")
              /\ UNCHANGED <<files, doc, attempt, lastError,
                             previousValidationErrors, prompt, terminalError,
                             failures, calls, inflight>>
  /\ UNCHANGED <<argv, masterExists, names, generated, result, validated,
                 settled, namesOutcome, lastValidation>>
  /\ UNCHANGED <<rvars, tvars>>

\* writeFile(resumePaths.md) settles; convertToPdf is called
SaveResume ==
  /\ pc = "docWrite"
  /\ doc = "resume"
  /\ \E ok \in BOOLEAN :
       IF ok
         THEN /\ files' = [files EXCEPT !.md = File(result["resume"].content)]
              /\ pc' = "pdf"
              /\ calls' = [calls EXCEPT !.pdf = @ + 1]
              /\ UNCHANGED <<exitCode, exitCause>>
         ELSE /\ Exit(1, "write")
              /\ UNCHANGED <<files, calls>>
  /\ UNCHANGED <<argv, masterExists, names, doc, attempt, lastError,
                 previousValidationErrors, prompt, generated, result,
                 terminalError, failures, validated, inflight, settled,
                 namesOutcome, lastValidation>>
  /\ UNCHANGED <<rvars, tvars>>

\* variant: the catch around convertToPdf falls through to process.exit(0)
ConvertExitCode_Fallthrough(ok) == 0

\* the exit code after convertToPdf settled: process.exit(1) in the catch
\* around it, process.exit(0) after it
ConvertExitCode(ok) == IF ok THEN 0 ELSE 1

\* convertToPdf settles; a failed conversion may leave a partial file
ConvertToPdf ==
  /\ pc = "pdf"
  /\ \E ok \in BOOLEAN, partial \in BOOLEAN :
       IF ok
         THEN /\ ~partial
              /\ files' = [files EXCEPT !.pdf = File(<<"PDF">>)]
              /\ Exit(ConvertExitCode(TRUE), "complete")
         ELSE /\ files' = [files EXCEPT !.pdf =
                             IF partial THEN File(<<>>) ELSE Absent]
              /\ Exit(ConvertExitCode(FALSE), "pdf")
  /\ UNCHANGED <<argv, masterExists, names, doc, attempt, lastError,
                 previousValidationErrors, prompt, generated, result,
                 terminalError, failures, validated, calls, inflight,
                 settled, namesOutcome, lastValidation>>
  /\ UNCHANGED <<rvars, tvars>>

Next ==
  \/ MainReadMaster
  \/ GetSuggestedNames
  \/ GenerateJobSummary
  \/ SaveJobSummary
  \/ GenerationResponse
  \/ ValidationResponse
  \/ SaveCoverLetter
  \/ SaveResume
  \/ ConvertToPdf

Spec == Init /\ [][Next]_<<vars, rvars, tvars>>

\* a run with the master document in place and both flags given (the loops
\* do not read the flags)
InitFair ==
  /\ Init
  /\ masterExists
  /\ argv = [cover |-> TRUE, hallucinate |-> TRUE]

\* every awaited operation settles: the service answers or the transport
\* gives up, a file operation completes or fails
FairSpec == InitFair /\ [][Next]_<<vars, rvars, tvars>> /\ WF_vars(Next)

\* ------------------------------------------------------------------------
\* convertToPdf (lib/pdf-converter.js) and the layout rules of pdfkit it
\* relies on
\* ------------------------------------------------------------------------

\* bound: the largest number of lines of an input
MaxLines == 5

\* bound: the number of wrapped rows of a long paragraph
MaxRows == 32

\* bound: the largest number of wrapped rows of a heading
MaxHeadingRows == 2

\* lengths are integers in units of 1/37000 pt: every line height, and the
\* quotient preSpacing / currentLineHeight() of moveDown, is a whole number
\* of units
Unit == 37000

Pt(n) == n * Unit

\* size: 'LETTER'
PageWidth == 612

PageHeight == 792

\* margins: top, bottom, left, right
Margin == 50

\* the footer allowance of the look-ahead
FooterReserve == 30

\* styles: font sizes, paragraph gaps, the gap before a level-2 heading
H1Size == 24

H2Size == 14

H3Size == 12

NormalSize == 12

FooterSize == 10

H1Spacing == 4

H2Spacing == 8

H3Spacing == 4

NormalSpacing == 5

H2PreSpacing == 10

\* height of a line of the standard fonts per 1000 units of font size:
\* ascender - descender, and the same with the font's own line gap
FontHeight == 925

HelveticaGapHeight == 1156

HelveticaBoldGapHeight == 1190

FontGapHeight(font) ==
  IF font = "Helvetica-Bold" THEN HelveticaBoldGapHeight ELSE HelveticaGapHeight

\* doc.currentLineHeight(includeGap) for the font and size in use
currentLineHeight(font, size, includeGap) ==
  ((IF includeGap THEN FontGapHeight(font) ELSE FontHeight) * size * Unit) \div 1000

\* doc.lineGap(styles.normal.spacing): added below every line of text
LineGap == Pt(NormalSpacing)

\* page.maxY() with the bottom margin of the page
MaxY(bottomMargin) == Pt(PageHeight - bottomMargin)

\* doc.text of a block that wraps to `rows` lines, from cursor y0, with
\* line height lh (font gap included): a new page is begun when the first
\* line does not fit above maxY, and after a line that is not the last one
\* when the next does not fit; the last line is followed by the paragraph
\* gap.  Gives the cursor after the block, the pages begun, the cursor at
\* which the first line was placed and the cursor below the last line.
RECURSIVE LayRows(_, _, _, _, _, _)
LayRows(cur, rows, lh, paragraphGap, maxY, st) ==
  IF rows = 1
    THEN [st EXCEPT !.y = cur + lh + LineGap + paragraphGap,
                    !.bottom = cur + lh + LineGap]
    ELSE LET below == cur + lh + LineGap
         IN IF below + lh > maxY
              THEN LayRows(Pt(Margin), rows - 1, lh, paragraphGap, maxY,
                           [st EXCEPT !.added = @ + 1])
              ELSE LayRows(below, rows - 1, lh, paragraphGap, maxY, st)

Text(y0, rows, lh, paragraphGap, maxY) ==
  LET breakFirst == y0 > maxY \/ y0 + lh > maxY
      start == IF breakFirst THEN Pt(Margin) ELSE y0
  IN LayRows(start, rows, lh, paragraphGap, maxY,
             [y |-> start, bottom |-> start, placedAt |-> start,
              added |-> IF breakFirst THEN 1 ELSE 0])

\* doc.heightOfString(headerText, {width}) in the font in use: the lines
\* the text wraps to at that font, each with the line gap
heightOfString(measuredRows, font, size) ==
  measuredRows * (currentLineHeight(font, size, TRUE) + LineGap)

\* doc.moveDown(styles.h2.preSpacing / doc.currentLineHeight()):
\* y += currentLineHeight(true) * lines + lineGap
MoveDown(font) ==
  (FontGapHeight(font) * Pt(H2PreSpacing)) \div FontHeight + LineGap

\* const pageHeight = doc.page.height - doc.page.margins.bottom - 30
LookAheadLimit == Pt(PageHeight - Margin - FooterReserve)

\* variant: the look-ahead is applied to every heading
ForcesBreak_AnyHeading(line, cur) ==
  /\ line.kind \in {"h1", "h2", "h3"}
  /\ cur + heightOfString(line.measured, "Helvetica", NormalSize)
         + currentLineHeight("Helvetica", NormalSize, FALSE) * 3
       > LookAheadLimit

\* the look-ahead of a level-2 or level-3 heading, made in the body font,
\* which the style reset at the end of the previous line left in use
ForcesBreak(line, cur) ==
  /\ line.kind \in {"h2", "h3"}
  /\ cur + heightOfString(line.measured, "Helvetica", NormalSize)
         + currentLineHeight("Helvetica", NormalSize, FALSE) * 3
       > LookAheadLimit

\* the lines an input may hold: a blank line, or a line of one of the five
\* kinds with the rows it wraps to when it is written; for a heading also
\* the rows it wraps to in the narrower body font of the look-ahead
LineChoices ==
  {[kind |-> "blank", measured |-> 0, rows |-> 0]}
    \cup {[kind |-> "h1", measured |-> r, rows |-> r] : r \in 1..MaxHeadingRows}
    \cup {l \in [kind : {"h2", "h3"}, measured : 1..MaxHeadingRows,
                  rows : 1..MaxHeadingRows] : l.measured <= l.rows}
    \cup {[kind |-> "bullet", measured |-> 1, rows |-> 1]}
    \cup {[kind |-> "paragraph", measured |-> r, rows |-> r] : r \in {1, MaxRows}}

LineStyle(kind) ==
  IF kind = "h1"
    THEN [font |-> "Helvetica-Bold", size |-> H1Size, gap |-> H1Spacing]
  ELSE IF kind = "h2"
    THEN [font |-> "Helvetica-Bold", size |-> H2Size, gap |-> H2Spacing]
  ELSE IF kind = "h3"
    THEN [font |-> "Helvetica-Bold", size |-> H3Size, gap |-> H3Spacing]
  ELSE [font |-> "Helvetica", size |-> NormalSize, gap |-> NormalSpacing]

\* variant: the gap is also inserted at the top of a page
PreGap_AtTop(line, cur) ==
  IF line.kind = "h2" /\ cur >= Pt(Margin) THEN MoveDown("Helvetica") ELSE 0

\* if (doc.y > doc.page.margins.top) doc.moveDown(...), in the h2 branch only
PreGap(line, cur) ==
  IF line.kind = "h2" /\ cur > Pt(Margin) THEN MoveDown("Helvetica") ELSE 0

\* one iteration of the for-loop over the lines, for a line that is not
\* blank: the record of how it was laid out; used tells whether the page
\* already holds content
LayOut(line, cur, count, used) ==
  LET forced == ForcesBreak(line, cur)
      afterBreak == IF forced THEN Pt(Margin) ELSE cur
      afterGap == afterBreak + PreGap(line, afterBreak)
      style == LineStyle(line.kind)
      t == Text(afterGap, line.rows,
                currentLineHeight(style.font, style.size, TRUE),
                Pt(style.gap), MaxY(Margin))
  IN [kind |-> line.kind, measured |-> line.measured, rows |-> line.rows,
      yBefore |-> cur, pagesBefore |-> count, forced |-> forced,
      placedAt |-> t.placedAt, bottom |-> t.bottom, overflow |-> t.added,
      gap |-> afterGap # afterBreak, usedBefore |-> used, used |-> TRUE,
      y |-> t.y,
      pages |-> count + (IF forced THEN 1 ELSE 0) + t.added]

\* variant: the write stream is created before the input is read
OutputOpened_BeforeRead(readOk) == TRUE

\* fs.createWriteStream(outputPath) is reached only after readFile resolved
OutputOpened(readOk) == readOk

\* the exit code of the standalone conversion command
CommandExitCode(rejected) == IF rejected THEN 1 ELSE 0

\* variant: the page number is the loop index
FooterText_ZeroBased(i, count) == [page |-> i, of |-> count]

\* `Page ${i + 1} of ${range.count}`
FooterText(i, count) == [page |-> i + 1, of |-> count]

\* variant: the bottom margin is left in place while the footer is written
StampBottomMargin_Kept == Margin

\* doc.page.margins.bottom = 0 while the footer is written
StampBottomMargin == 0

\* a conversion starts: the main run is not modelled
InitRender ==
  /\ pc = "convert"
  /\ exitCode = -1
  /\ argv = [cover |-> FALSE, hallucinate |-> FALSE]
  /\ masterExists = TRUE
  /\ names = "none"
  /\ files = [f \in FileNames |-> Absent]
  /\ doc = "none"
  /\ attempt = InitLocals.attempt
  /\ lastError = InitLocals.lastError
  /\ previousValidationErrors = InitLocals.previousValidationErrors
  /\ prompt = BuildPrompt("none", 0, <<>>, FALSE)
  /\ generated = <<>>
  /\ result = [d \in Docs |-> Absent]
  /\ terminalError = <<>>
  /\ failures = <<>>
  /\ validated = {}
  /\ calls = [names |-> 0, summary |-> 0, pdf |-> 0,
              gen |-> [d \in Docs |-> 0], val |-> [d \in Docs |-> 0]]
  /\ inflight = {}
  /\ settled = {}
  /\ namesOutcome = "none"
  /\ lastValidation = [doc |-> "none", candidate |-> <<>>, outcome |-> Failure("none")]
  /\ exitCause = "none"
  /\ rpc = "read"
  /\ inputExists \in BOOLEAN
  /\ outputCreated = FALSE
  /\ total \in 0..MaxLines
  /\ nLines = 0
  /\ y = 0
  /\ pages = 0
  /\ range = 0
  /\ stamped = 0
  /\ footers = <<>>
  /\ promise = "pending"
  /\ commandExit = -1
  /\ stream = NoStream
  /\ lastLine = NoLine
  /\ TextIdle

\* readFile(inputPath) settles: on an error convertToPdf rejects; otherwise
\* the document is created with its first page, the write stream is opened
\* and the input is split into lines
ReadInput ==
  /\ rpc = "read"
  /\ outputCreated' = OutputOpened(inputExists)
  /\ IF inputExists
       THEN /\ rpc' = "layout"
            /\ pages' = 1
            /\ footers' = << <<>> >>
            /\ y' = Pt(Margin)
            /\ UNCHANGED <<promise, commandExit, stream>>
       ELSE /\ rpc' = "settled"
            /\ promise' = "rejected"
            /\ stream' = [stream EXCEPT !.settles = @ + 1]
            /\ commandExit' = CommandExitCode(TRUE)
            /\ UNCHANGED <<pages, footers, y>>
  /\ UNCHANGED <<inputExists, total, nLines, range, stamped, lastLine>>
  /\ UNCHANGED <<vars, tvars>>

\* one iteration of the for-loop over the lines
LayoutLine ==
  /\ rpc = "layout"
  /\ nLines < total
  /\ \E line \in LineChoices :
       IF line.kind = "blank"
         THEN /\ lastLine' = [NoLine EXCEPT !.kind = "blank", !.yBefore = y,
                                            !.pagesBefore = pages,
                                            !.placedAt = y, !.bottom = y,
                                            !.usedBefore = lastLine.used,
                                            !.used = lastLine.used]
              /\ UNCHANGED <<y, pages, footers>>
         ELSE LET l == LayOut(line, y, pages, lastLine.used)
              IN /\ lastLine' = [f \in DOMAIN NoLine |-> l[f]]
                 /\ y' = l.y
                 /\ pages' = l.pages
                 /\ footers' = footers \o [i \in 1..(l.pages - pages) |-> <<>>]
  /\ nLines' = nLines + 1
  /\ UNCHANGED <<rpc, inputExists, outputCreated, total, range, stamped,
                 promise, commandExit, stream>>
  /\ UNCHANGED <<vars, tvars>>

\* the for-loop ends: const range = doc.bufferedPageRange()
EndOfInput ==
  /\ rpc = "layout"
  /\ nLines = total
  /\ rpc' = "stamp"
  /\ range' = pages
  /\ stamped' = 0
  /\ lastLine' = NoLine
  /\ UNCHANGED <<inputExists, outputCreated, total, nLines, y, pages, footers,
                 promise, commandExit, stream>>
  /\ UNCHANGED <<vars, tvars>>

\* one iteration of the stamping loop: switchToPage(i), the footer written
\* at the middle of the bottom margin; a page that text begins while the
\* footer is written takes the footer
StampFooter ==
  /\ rpc = "stamp"
  /\ stamped < range
  /\ LET i == stamped
         t == Text(Pt(PageHeight) - Pt(Margin) \div 2, 1,
                   currentLineHeight("Helvetica", FooterSize, TRUE), 0,
                   MaxY(StampBottomMargin))
         target == IF t.added > 0 THEN pages + t.added ELSE i + 1
         buffer == footers \o [k \in 1..t.added |-> <<>>]
     IN /\ pages' = pages + t.added
        /\ footers' = [buffer EXCEPT ![target] = Append(@, FooterText(i, range))]
        /\ y' = t.y
  /\ stamped' = stamped + 1
  /\ UNCHANGED <<rpc, inputExists, outputCreated, total, nLines, range,
                 promise, commandExit, stream, lastLine>>
  /\ UNCHANGED <<vars, tvars>>

\* variant: the loops give way to the event loop between iterations
Yielded_InLoops == rpc \in {"read", "layout", "stamp", "end"}

\* the points at which convertToPdf has given way to the event loop: the
\* await of readFile, and after the promise was returned; from
\* createWriteStream to doc.end() the code runs without an await
Yielded == rpc \in {"read", "end"}

\* resolve() or reject(): only a pending promise changes
SettlePromise(p, outcome) == IF p = "pending" THEN outcome ELSE p

\* the stamping loop ends: the promise is created, its executor registers
\* the listeners and calls doc.end()
EndDocument ==
  /\ rpc = "stamp"
  /\ stamped = range
  /\ rpc' = "end"
  /\ stream' = [stream EXCEPT !.listening = TRUE]
  /\ UNCHANGED <<inputExists, outputCreated, total, nLines, y, pages, range,
                 stamped, footers, promise, commandExit, lastLine>>
  /\ UNCHANGED <<vars, tvars>>

\* the write stream emits 'finish', after doc.end()
StreamFinish ==
  /\ rpc = "end"
  /\ stream.events = <<>>
  /\ rpc' = "settled"
  /\ promise' = SettlePromise(promise, "resolved")
  /\ stream' = [stream EXCEPT !.events = Append(@, "finish"),
                              !.settles = @ + (IF promise = "pending" THEN 1 ELSE 0)]
  /\ commandExit' = CommandExitCode(FALSE)
  /\ UNCHANGED <<inputExists, outputCreated, total, nLines, y, pages, range,
                 stamped, footers, lastLine>>
  /\ UNCHANGED <<vars, tvars>>

\* the write stream emits 'error' (the file cannot be opened or written):
\* with the listeners registered the promise is rejected, without them the
\* event is an uncaught exception
StreamError ==
  /\ outputCreated
  /\ Yielded
  /\ stream.events = <<>>
  /\ IF stream.listening
       THEN /\ rpc' = "settled"
            /\ promise' = SettlePromise(promise, "rejected")
            /\ stream' = [stream EXCEPT
                            !.events = Append(@, "error"),
                            !.settles = @ + (IF promise = "pending" THEN 1 ELSE 0)]
       ELSE /\ rpc' = "crashed"
            /\ stream' = [stream EXCEPT !.events = Append(@, "error"),
                                        !.lost = TRUE]
            /\ UNCHANGED promise
  /\ commandExit' = CommandExitCode(TRUE)
  /\ UNCHANGED <<inputExists, outputCreated, total, nLines, y, pages, range,
                 stamped, footers, lastLine>>
  /\ UNCHANGED <<vars, tvars>>

NextRender ==
  \/ ReadInput
  \/ LayoutLine
  \/ EndOfInput
  \/ StampFooter
  \/ EndDocument
  \/ StreamFinish
  \/ StreamError

SpecRender == InitRender /\ [][NextRender]_<<vars, rvars, tvars>>

\* ------------------------------------------------------------------------
\* The functions of the text, each applied once to an input drawn from a
\* bounded set
\* ------------------------------------------------------------------------

\* a line is made of at most MaxPieces pieces of Markdown
MaxPieces == 3

\* a text handed to wrapText has at most MaxTextLen characters, and the
\* width is at most MaxWidth
MaxTextLen == 6

MaxWidth == 3

\* a naming response has at most MaxNameLines lines
MaxNameLines == 3

RECURSIVE Flatten(_)
Flatten(seqs) == IF seqs = <<>> THEN <<>> ELSE Head(seqs) \o Flatten(Tail(seqs))

\* the sequences of at most n elements of S
SeqsUpTo(S, n) == UNION {[1..k -> S] : k \in 0..n}

PieceTable ==
  << <<"#">>, <<" ">>, <<"-">>, <<"a">>, <<"*", "*">>, <<"[">>, <<"]", "(">>,
     <<")">>, <<"h", "t", "t", "p", ":", "/", "/">>, <<".">>, <<"?">> >>

\* lines of the shapes the converter tells apart, longer than MaxPieces
\* pieces: the headings, a white line, a bullet with a bold span and a link,
\* paragraphs with URLs followed by punctuation
LineTable ==
  << <<"#", "#", "#", " ", "a">>,
     <<"#", "#", " ", "a", " ", "a">>,
     <<"#", "#", "#", "a">>,
     <<" ", "\t", " ">>,
     <<" ", "#", " ", "a">>,
     <<"-", " ", "*", "*", "B", "o", "l", "d", "*", "*", " ", "i", "t", "e",
       "m", " ", "[", "l", "i", "n", "k", "]", "(", "h", "t", "t", "p", ":",
       "/", "/", "x", ".", "t", "e", "s", "t", ")">>,
     <<"S", "e", "e", " ", "h", "t", "t", "p", "s", ":", "/", "/", "x", ".",
       "t", "e", "s", "t", ".">>,
     <<"S", "e", "e", " ", "h", "t", "t", "p", ":", "/", "/", "x", ".", "t",
       "e", "s", "t", "?", "!", " ", "a">>,
     <<"a", " ", "[", "b", "]", "(", "h", "t", "t", "p", ":", "/", "/", "x",
       ",", ")", ",", " ", "*", "*", "c", "*", "*", ".">>,
     <<"*", "*", "[", "a", "]", "(", "b", ")", "*", "*", " ", "[", "*", "*",
       "a", "*", "*", "]", "(", "b", ")">> >>

Lines ==
  {Flatten([i \in DOMAIN ps |-> PieceTable[ps[i]]]) :
     ps \in SeqsUpTo(DOMAIN PieceTable, MaxPieces)}
    \cup {LineTable[i] : i \in DOMAIN LineTable}

Texts == SeqsUpTo({"a", " ", "\n"}, MaxTextLen)

\* lines of a naming response: usable names, names the clean-up repairs,
\* names it leaves invalid, an empty line, names of 50 and 51 characters
RawNameTable ==
  << <<"a">>,
     <<"a", "-", "b", "1">>,
     <<" ", "A", "a", "-", "c", "!", " ">>,
     <<"b", "-", "c">>,
     <<"-", "a">>,
     <<"a", "-">>,
     <<"a", "-", " ", "-", "b">>,
     <<>>,
     [i \in 1..MaxNameLength |-> "a"],
     [i \in 1..(MaxNameLength + 1) |-> "a"] >>

NameContents ==
  {Join([i \in DOMAIN ls |-> RawNameTable[ls[i]]], "\n") :
     ls \in SeqsUpTo(DOMAIN RawNameTable, MaxNameLines)}

\* new Date().toISOString().split('T')[0]
Timestamps ==
  { <<"2", "0", "2", "4", "-", "0", "2", "-", "2", "9">>,
    <<"2", "0", "2", "5", "-", "1", "2", "-", "3", "1">> }

\* a function of the text is about to be applied; the main run and the
\* conversion are not modelled
InitText ==
  /\ pc = "text"
  /\ exitCode = -1
  /\ argv = [cover |-> FALSE, hallucinate |-> FALSE]
  /\ masterExists = TRUE
  /\ names = "none"
  /\ files = [f \in FileNames |-> Absent]
  /\ doc = "none"
  /\ attempt = InitLocals.attempt
  /\ lastError = InitLocals.lastError
  /\ previousValidationErrors = InitLocals.previousValidationErrors
  /\ prompt = BuildPrompt("none", 0, <<>>, FALSE)
  /\ generated = <<>>
  /\ result = [d \in Docs |-> Absent]
  /\ terminalError = <<>>
  /\ failures = <<>>
  /\ validated = {}
  /\ calls = [names |-> 0, summary |-> 0, pdf |-> 0,
              gen |-> [d \in Docs |-> 0], val |-> [d \in Docs |-> 0]]
  /\ inflight = {}
  /\ settled = {}
  /\ namesOutcome = "none"
  /\ lastValidation = [doc |-> "none", candidate |-> <<>>, outcome |-> Failure("none")]
  /\ exitCause = "none"
  /\ RenderIdle
  /\ out = NoOut
  /\ \/ /\ fn = "line"
        /\ arg \in [text : Lines, width : {0}, outcome : {"none"},
                    timestamp : {<<>>}]
     \/ /\ fn = "wrap"
        /\ arg \in [text : Texts, width : 1..MaxWidth, outcome : {"none"},
                    timestamp : {<<>>}]
     \/ /\ fn = "names"
        /\ arg \in [text : NameContents, width : {0},
                    outcome : {"ok", "transport", "malformed"},
                    timestamp : Timestamps]

\* one pass of the for-loop of convertToPdf over a line
ConvertLine ==
  /\ fn = "line"
  /\ ~out.applied
  /\ out' = [out EXCEPT !.applied = TRUE, !.line = EmitLine(arg.text)]
  /\ UNCHANGED <<fn, arg>>
  /\ UNCHANGED <<vars, rvars>>

\* wrapText(text, width), and wrapText applied to what it returned
WrapText ==
  /\ fn = "wrap"
  /\ ~out.applied
  /\ out' = [out EXCEPT !.applied = TRUE,
                        !.text = wrapText(arg.text, arg.width),
                        !.again = wrapText(wrapText(arg.text, arg.width),
                                           arg.width)]
  /\ UNCHANGED <<fn, arg>>
  /\ UNCHANGED <<vars, rvars>>

\* getSuggestedNames: the call settles and the names are returned
SuggestNames ==
  /\ fn = "names"
  /\ ~out.applied
  /\ out' = [out EXCEPT !.applied = TRUE,
                        !.names = getSuggestedNames(arg.outcome, arg.text,
                                                    arg.timestamp)]
  /\ UNCHANGED <<fn, arg>>
  /\ UNCHANGED <<vars, rvars>>

NextText ==
  \/ ConvertLine
  \/ WrapText
  \/ SuggestNames

SpecText == InitText /\ [][NextText]_<<vars, rvars, tvars>>

\* ------------------------------------------------------------------------
\* Properties
\* ------------------------------------------------------------------------

Last(s) == s[Len(s)]

\* the failed attempts of the running generate function that reached the
\* validation call
ValidationFailures == SelectSeq(failures, LAMBDA f : f.kind # "generation")

\* the text after the "INVALID:" prefix of a trimmed response, trimmed
RemainderTrimmed(raw) ==
  Trim(SubSeq(Trim(raw), Len(INVALID_COLON) + 1, Len(Trim(raw))))

\* the reason a failed attempt leaves: the error's message, the remainder
\* of an INVALID: response, the trimmed text of any other response
ReasonOf(f) ==
  IF f.kind \in {"generation", "validation"} THEN f.raw
  ELSE IF f.kind = "Invalid" THEN RemainderTrimmed(f.raw)
  ELSE Trim(f.raw)

\* the output file of a document
FileOf(d) == IF d = "cover" THEN "cover" ELSE "md"

\* all attempts of the budget were made and every one got an Invalid verdict
AllInvalid ==
  /\ Len(failures) = maxAttempts
  /\ \A i \in 1..Len(failures) : failures[i].kind = "Invalid"

\* C1: a text is on the resume Markdown path or on the cover-letter text
\* path only if the validator answered VALID for exactly that text during
\* the generation of that document; a text whose validation failed or was
\* never performed is never written
C1_WrittenOnlyIfValidated ==
  \A d \in Docs :
    files[FileOf(d)].exists => <<d, files[FileOf(d)].content>> \in validated

\* the resume was written after at least one failed attempt
C1_Witness ==
  /\ files.md.exists
  /\ files.cover.exists
  /\ failures # <<>>

\* C2: after three Invalid verdicts for a document its generate function
\* has thrown, the process has exited with a non-zero code and the text of
\* the third attempt was neither returned nor written
C2_ThreeInvalidFails ==
  AllInvalid =>
    /\ pc = "done"
    /\ exitCode >= 1
    /\ terminalError # <<>>
    /\ ~result[doc].exists
    /\ ~files[FileOf(doc)].exists

\* the resume got three Invalid verdicts
C2_Witness == AllInvalid /\ doc = "resume" /\ pc = "done"

\* C3 as stated: every failed attempt, a failed generation call included,
\* appends a reason, so the prompt of attempt k holds k-1 reasons
C3_Original ==
  pc = "gen" =>
    prompt.errors = [i \in 1..(prompt.attempt - 1) |-> ReasonOf(failures[i])]

\* C3 amended: every attempt that fails in its validation step (an Invalid
\* verdict, any other non-VALID response, an error of the validation call)
\* appends its reason, an attempt whose generation call fails appends
\* nothing; the prompt of attempt k holds, in order, the reasons of exactly
\* the prior attempts that failed in validation
C3_PromptHoldsValidationReasons ==
  pc = "gen" =>
    /\ prompt.attempt = Len(failures) + 1
    /\ prompt.errors = previousValidationErrors
    /\ prompt.errors =
         [i \in 1..Len(ValidationFailures) |-> ReasonOf(ValidationFailures[i])]

\* the prompt of attempt 3 holds two different reasons
C3_Witness ==
  /\ pc = "gen"
  /\ prompt.attempt = maxAttempts
  /\ Len(prompt.errors) = 2
  /\ prompt.errors[1] # prompt.errors[2]

\* C4 as stated: when cover-letter generation ends in Failed, resume
\* generation is still attempted
C4_Original ==
  (exitCause = "budget" /\ doc = "cover") => calls.gen["resume"] > 0

\* C4 amended: the cover letter is generated first; when its generation
\* ends in Failed the process exits with code 1 and resume generation is
\* never attempted; while the resume is generated, and when its generation
\* ends in Failed, the cover letter already written stays as validated
C4_CoverFailureEndsRun ==
  /\ (exitCause = "budget" /\ doc = "cover") =>
       /\ pc = "done"
       /\ exitCode = 1
       /\ calls.gen["resume"] = 0
       /\ calls.pdf = 0
       /\ ~files.md.exists
       /\ ~files.pdf.exists
  /\ doc = "resume" =>
       /\ files.cover.exists
       /\ files.cover = result["cover"]
       /\ <<"cover", files.cover.content>> \in validated

\* the cover letter exhausted its budget
C4_Witness == exitCause = "budget" /\ doc = "cover" /\ argv.cover

\* C5: without the --cover flag no cover-letter generation call is made, no
\* cover-letter file is written and the exit code does not depend on the
\* cover letter
C5_CoverOnlyWithFlag ==
  ~argv.cover =>
    /\ calls.gen["cover"] = 0
    /\ calls.val["cover"] = 0
    /\ ~files.cover.exists
    /\ ~(pc = "done" /\ doc = "cover")

\* a service call of the run got a malformed response
SawMalformed ==
  \/ namesOutcome = "malformed"
  \/ \E i \in 1..Len(failures) :
       failures[i].kind \in {"generation", "validation"} /\ failures[i].raw = TypeErr

AllFilesWritten == \A f \in FileNames : files[f].exists

\* C6 as stated: exit code 0 only when every step succeeded, and exit code
\* 1 whenever the master document is missing, a retry budget is exhausted,
\* the PDF write fails or a service response is malformed
C6_Original ==
  /\ exitCode = 0 => AllFilesWritten
  /\ (pc = "done" /\ (~masterExists \/ exitCause \in {"budget", "pdf"} \/ SawMalformed))
       => exitCode = 1

\* C6 amended: exit code 0 only when the job summary, the validated cover
\* letter, the validated resume Markdown and the resume PDF were all
\* written; exit code 1 whenever the master document is missing, a retry
\* budget is exhausted, the PDF conversion fails, a file write fails or the
\* job-summary call fails or answers malformed; a malformed answer to the
\* naming call only selects the default names
C6_ExitCodes ==
  /\ exitCode = 0 =>
       /\ AllFilesWritten
       /\ exitCause = "complete"
       /\ \A d \in Docs : <<d, files[FileOf(d)].content>> \in validated
  /\ pc = "done" => exitCode \in {0, 1}
  /\ (pc = "done"
        /\ (~masterExists \/ exitCause \in {"budget", "pdf", "summary", "write"}))
       => exitCode = 1
  /\ namesOutcome \in {"transport", "malformed", "badformat"} => names = "default"

\* a run that got a malformed naming response and exited with code 0
C6_Witness == exitCode = 0 /\ namesOutcome = "malformed"

\* the generic message the claim names
ProtocolViolation == <<"validator protocol violation">>

\* C7 as stated: a response that starts with neither VALID nor INVALID:
\* puts the generic protocol-violation message into the accumulator
C7_Original ==
  (failures # <<>> /\ Last(failures).kind = "ProtocolError") =>
    /\ previousValidationErrors # <<>>
    /\ Last(previousValidationErrors) = ProtocolViolation

\* C7 amended: a response that starts with neither VALID nor INVALID: makes
\* the attempt fail, and the string appended to the accumulator is the
\* validator's trimmed response text itself
C7_ProtocolErrorAppendsResponse ==
  (failures # <<>> /\ Last(failures).kind = "ProtocolError") =>
    /\ previousValidationErrors # <<>>
    /\ Last(previousValidationErrors) = Trim(Last(failures).raw)
    /\ pc = "gen" => (attempt = Len(failures) + 1 /\ ~result[doc].exists)
    /\ Len(failures) = maxAttempts =>
         (pc = "done" /\ exitCode = 1 /\ ~result[doc].exists)

\* an attempt just failed on a response outside the protocol
C7_Witness ==
  /\ pc = "gen"
  /\ failures # <<>>
  /\ Last(failures).kind = "ProtocolError"
  /\ Last(previousValidationErrors) # Last(failures).raw

\* C8: a trimmed response that starts with VALID makes validateContent
\* return true (the candidate is returned); one that starts with INVALID:
\* fails the attempt and the reason appended is the remainder after the
\* prefix, trimmed
C8_VerdictParsing ==
  LET o == lastValidation.outcome
  IN o.kind = "text" =>
       /\ StartsWith(Trim(o.text), VALID) =>
            result[lastValidation.doc] = File(lastValidation.candidate)
       /\ StartsWith(Trim(o.text), INVALID_COLON) =>
            /\ doc = lastValidation.doc
            /\ ~result[doc].exists
            /\ previousValidationErrors # <<>>
            /\ Last(previousValidationErrors) = RemainderTrimmed(o.text)

\* an INVALID: response whose reason is padded with white space was parsed
C8_Witness ==
  /\ lastValidation.outcome = Answer(ResponseTable[2])
  /\ Last(previousValidationErrors) = <<"x">>

\* C9: when the budget is exhausted lastError is set, and the terminal
\* error names the failure of the third attempt: the validator's response
\* with its reason, or the error of the generation or validation call
C9_TerminalErrorNamesLastFailure ==
  exitCause = "budget" =>
    /\ Len(failures) = maxAttempts
    /\ lastError.set
    /\ lastError.message =
         (IF Last(failures).kind \in {"generation", "validation"}
            THEN Last(failures).raw
            ELSE Trim(Last(failures).raw))
    /\ terminalError = <<"Failed", doc, ":">> \o lastError.message
    /\ Last(failures).kind # "generation" =>
         /\ StripInvalidPrefix(lastError.message) = ReasonOf(Last(failures))
         /\ Last(previousValidationErrors) = ReasonOf(Last(failures))

\* two Invalid verdicts, which leave lastError unset, then a failed
\* generation call
C9_Witness ==
  /\ exitCause = "budget"
  /\ Len(failures) = maxAttempts
  /\ failures[1].kind = "Invalid"
  /\ failures[2].kind = "Invalid"
  /\ failures[3].kind = "generation"

TotalCalls ==
  calls.names + calls.summary + calls.pdf
    + calls.gen["cover"] + calls.gen["resume"]
    + calls.val["cover"] + calls.val["resume"]

\* C10: an unreadable master document ends the run with code 1 before any
\* service call and any output file; a failed PDF conversion ends the run
\* with code 1 after one conversion, no generation or validation call
\* having been issued again
C10_InputAndRenderErrorsFatal ==
  /\ ~masterExists =>
       /\ TotalCalls = 0
       /\ \A f \in FileNames : ~files[f].exists
       /\ pc = "done" => (exitCode = 1 /\ exitCause = "input")
  /\ exitCause = "pdf" =>
       /\ pc = "done"
       /\ exitCode = 1
       /\ calls.pdf = 1
       /\ calls.gen["resume"] = Len(failures) + 1
       /\ calls.val["resume"] = Len(ValidationFailures) + 1

\* the conversion failed after the resume needed more than one attempt
C10_Witness == exitCause = "pdf" /\ failures # <<>>

\* C11: the prompt of a generation call carries the fabricated-claim
\* instruction exactly when --hallucinate was given, the document is the
\* cover letter and the attempt is the first one; never on attempts 2 and
\* 3, never in a resume prompt, never without the flag
C11_HallucinationFirstCoverAttemptOnly ==
  /\ prompt.hallucinate =>
       (argv.hallucinate /\ prompt.doc = "cover" /\ prompt.attempt = 1)
  /\ pc = "gen" =>
       /\ prompt.doc = doc
       /\ prompt.attempt = attempt
       /\ prompt.hallucinate = (argv.hallucinate /\ doc = "cover" /\ attempt = 1)

\* with --hallucinate, the second cover-letter attempt is prompted without
\* the instruction
C11_Witness ==
  /\ argv.hallucinate
  /\ pc = "gen"
  /\ doc = "cover"
  /\ attempt = 2
  /\ ~prompt.hallucinate

\* a code-fence marker
Fence == <<Backtick, Backtick, Backtick>>

\* the texts of document d that were sent to validation, answered VALID,
\* returned or written
TextsOf(d) ==
  {t \in {generated, lastValidation.candidate} :
     (t = generated /\ doc = d /\ pc \in {"val", "docWrite"})
       \/ (t = lastValidation.candidate /\ lastValidation.doc = d)}
    \cup {p[2] : p \in {q \in validated : q[1] = d}}
    \cup (IF result[d].exists THEN {result[d].content} ELSE {})
    \cup (IF files[FileOf(d)].exists THEN {files[FileOf(d)].content} ELSE {})

\* C14 as stated: no validated or written document, resume or cover
\* letter, contains a code-fence marker
C14_Original ==
  \A d \in Docs : \A t \in TextsOf(d) : ~Includes(t, Fence)

\* C14 amended: no cover letter that is validated, returned or written
\* contains a code-fence marker; a resume is the service's text with only
\* the surrounding white space removed
C14_CoverLetterFenceFree ==
  /\ \A t \in TextsOf("cover") : ~Includes(t, Fence)
  /\ \A t \in TextsOf("resume") : \E raw \in RawDrafts : t = Trim(raw)

\* the cover letter came from the fenced draft and was written without its
\* markers, the resume was written with them
C14_Witness ==
  /\ files.cover = File(<<"B">>)
  /\ files.md.exists
  /\ Includes(files.md.content, Fence)

\* the generation of document d has ended in Succeeded or Failed
Succeeded(d) == result[d].exists

Failed(d) == exitCause = "budget" /\ doc = d

\* C15: per document at most three generation calls and at most three
\* validation calls are issued, every failed attempt, a transport error
\* included, using up one attempt; a generation that has started reaches
\* Succeeded or Failed, and from then on no service call is issued for
\* that document
C15_BoundedAttemptsThenTerminal ==
  /\ [](\A d \in Docs :
         /\ calls.gen[d] <= maxAttempts
         /\ calls.val[d] <= calls.gen[d]
         /\ (doc = d /\ ~Succeeded(d)) => calls.gen[d] = attempt
         /\ (doc = d /\ pc = "gen") => calls.gen[d] = Len(failures) + 1)
  /\ [][\A d \in Docs :
          (Succeeded(d) \/ Failed(d)) =>
            (calls.gen[d]' = calls.gen[d] /\ calls.val[d]' = calls.val[d])]_vars
  /\ \A d \in Docs : (calls.gen[d] > 0) ~> (Succeeded(d) \/ Failed(d))

\* the resume succeeded on its third attempt after a failed generation call
C15_Witness ==
  /\ Succeeded("resume")
  /\ calls.gen["resume"] = maxAttempts
  /\ calls.val["resume"] = 2
  /\ \E i \in 1..Len(failures) : failures[i].kind = "generation"

\* every service call issued so far
Issued == inflight \cup {s.call : s \in settled}

SettledAs(c, ok) == [call |-> c, ok |-> ok] \in settled

\* C16: at most one service call is in flight; the validation call of an
\* attempt is issued only after the generation call of that attempt gave a
\* text; the generation call of attempt n+1 is issued only after the
\* generation call of attempt n failed, or gave a text whose validation
\* call ended in a failure
C16_CallsStrictlySerial ==
  /\ Cardinality(inflight) <= 1
  /\ inflight = (IF pc \in {"names", "summary", "gen", "val"}
                   THEN {CurrentCall} ELSE {})
  /\ \A c \in Issued :
       /\ c.kind = "val" => SettledAs(Call("gen", c.doc, c.attempt), TRUE)
       /\ (c.kind = "gen" /\ c.attempt > 1) =>
            \/ SettledAs(Call("gen", c.doc, c.attempt - 1), FALSE)
            \/ /\ SettledAs(Call("gen", c.doc, c.attempt - 1), TRUE)
               /\ SettledAs(Call("val", c.doc, c.attempt - 1), FALSE)

\* the third generation call of the resume is in flight, after a failed
\* validation and a failed generation call
C16_Witness ==
  /\ inflight = {Call("gen", "resume", maxAttempts)}
  /\ SettledAs(Call("val", "resume", 1), FALSE)
  /\ SettledAs(Call("gen", "resume", 2), FALSE)
  /\ SettledAs(Call("val", "cover", 1), TRUE)

\* C17: the accumulator of a document is empty at the first attempt of that
\* document, and every reason in a prompt of a document is the reason of a
\* failed validation of that same document
C17_AccumulatorsSeparate ==
  /\ \A c \in inflight :
       (c.kind = "gen" /\ c.attempt = 1) =>
         (previousValidationErrors = <<>> /\ prompt.errors = <<>>)
  /\ pc \in {"gen", "val"} =>
       /\ prompt.doc = doc
       /\ Len(prompt.errors)
            = Cardinality({s \in settled :
                            s.call.kind = "val" /\ s.call.doc = doc /\ ~s.ok
                              /\ s.call.attempt < prompt.attempt})
       /\ \A i \in 1..Len(prompt.errors) :
            \E j \in 1..Len(failures) :
              /\ failures[j].kind # "generation"
              /\ prompt.errors[i] = ReasonOf(failures[j])

\* the first attempt of the resume starts with an empty accumulator after
\* the cover letter collected two reasons
C17_Witness ==
  /\ inflight = {Call("gen", "resume", 1)}
  /\ prompt.errors = <<>>
  /\ SettledAs(Call("val", "cover", 1), FALSE)
  /\ SettledAs(Call("val", "cover", 2), FALSE)
  /\ SettledAs(Call("val", "cover", 3), TRUE)

\* C12: when the stamping loop has ended, every page i of the N pages of
\* the document carries exactly one footer, "Page i of N"; while the loop
\* runs, the pages it has visited do and the others carry none
C12_EveryPageNumberedOnce ==
  rpc \in {"stamp", "end"} \/ (rpc = "settled" /\ inputExists) =>
    /\ Len(footers) = pages
    /\ \A p \in 1..pages :
         footers[p] = (IF p <= stamped
                         THEN <<[page |-> p, of |-> pages]>>
                         ELSE <<>>)
    /\ rpc \in {"end", "settled"} => stamped = pages

\* a document of three pages or more was stamped
C12_Witness == rpc = "end" /\ pages >= 3 /\ footers[pages] # <<>>

\* C13: when the input file cannot be read, convertToPdf rejects without
\* having created the output file or a document, and the standalone
\* command exits with code 1; the output file is created only after the
\* input was read
C13_MissingInputCreatesNothing ==
  /\ outputCreated => (inputExists /\ rpc # "read")
  /\ ~inputExists =>
       /\ ~outputCreated
       /\ pages = 0
       /\ rpc \in {"read", "settled"}
       /\ rpc = "settled" => (promise = "rejected" /\ commandExit = 1)

\* the conversion of a missing input file has failed
C13_Witness == ~inputExists /\ rpc = "settled" /\ promise = "rejected"

\* C18: no footer is written before every line of the input was laid out;
\* the stamping loop neither adds nor removes a page, so the page count
\* read before the loop is the final page count
C18_TwoPassRendering ==
  /\ [](rpc \in {"read", "layout"} =>
          (stamped = 0 /\ \A p \in 1..Len(footers) : footers[p] = <<>>))
  /\ []((\E p \in 1..Len(footers) : footers[p] # <<>>) => nLines = total)
  /\ [][rpc = "stamp" => pages' = pages]_rvars
  /\ [](rpc \in {"stamp", "end"} \/ (rpc = "settled" /\ inputExists)
          => pages = range)

\* the stamping loop is half way through a document of several pages and
\* lines
C18_Witness ==
  /\ rpc = "stamp"
  /\ stamped = 1
  /\ range >= 2
  /\ nLines = MaxLines

\* C19: the converter begins a new page before a line exactly when the
\* line is a level-2 or level-3 heading and cursor + heading height + three
\* line heights exceeds page height - bottom margin - 30; the heading is
\* then placed at the top margin; a level-1 heading, a bullet or a
\* paragraph never makes the converter begin a page (a page begun while
\* their text is written is the library's overflow, counted apart)
C19_ForcedBreakExactlyOnLookAhead ==
  lastLine.kind \notin {"none", "blank"} =>
    /\ lastLine.forced =
         (/\ lastLine.kind \in {"h2", "h3"}
          /\ lastLine.yBefore
                + lastLine.measured
                    * (currentLineHeight("Helvetica", NormalSize, TRUE) + LineGap)
                + 3 * currentLineHeight("Helvetica", NormalSize, FALSE)
              > Pt(PageHeight - Margin - FooterReserve))
    /\ lastLine.forced => lastLine.placedAt = Pt(Margin)
    /\ lastLine.kind \in {"h1", "bullet", "paragraph"} => ~lastLine.forced
    /\ pages = lastLine.pagesBefore + (IF lastLine.forced THEN 1 ELSE 0)
                 + lastLine.overflow

\* a level-3 heading was moved to the top of a new page
C19_Witness ==
  /\ lastLine.kind = "h3"
  /\ lastLine.forced
  /\ lastLine.placedAt = Pt(Margin)
  /\ pages = lastLine.pagesBefore + 1

\* C20: below a level-2 heading that was placed, at least three line
\* heights remain above page height - bottom margin - 30
C20_NoStrandedHeading ==
  lastLine.kind = "h2" =>
    Pt(PageHeight - Margin - FooterReserve) - lastLine.bottom
      >= 3 * currentLineHeight("Helvetica", NormalSize, FALSE)

\* C21: a level-2 heading gets the pre-heading gap exactly when its page
\* already holds content and no page break was forced before it; with the
\* gap it is placed one gap below the cursor, without it at the cursor or
\* at the top margin; a level-3 heading never gets the gap
C21_PreHeadingGap ==
  /\ lastLine.kind = "h2" =>
       /\ lastLine.gap = (lastLine.usedBefore /\ ~lastLine.forced)
       /\ lastLine.gap =>
            lastLine.placedAt
              = lastLine.yBefore
                  + (HelveticaGapHeight * Pt(H2PreSpacing)) \div FontHeight
                  + LineGap
       /\ ~lastLine.gap => lastLine.placedAt = Pt(Margin)
  /\ lastLine.kind = "h3" =>
       /\ ~lastLine.gap
       /\ lastLine.placedAt = (IF lastLine.forced THEN Pt(Margin)
                                                  ELSE lastLine.yBefore)

\* a level-2 heading was moved to a new page that follows a used one, and
\* got no gap
C21_Witness ==
  /\ lastLine.kind = "h2"
  /\ lastLine.forced
  /\ lastLine.usedBefore
  /\ ~lastLine.gap

\* C26: the promise of convertToPdf is settled exactly once; it is resolved
\* only after every page was stamped, the document was ended and the
\* stream emitted 'finish'; it is rejected when the stream emits 'error';
\* no stream event is delivered before the listeners are registered, so no
\* 'error' is lost
C26_PromiseSettlesOnce ==
  /\ [](stream.settles = (IF promise = "pending" \/ promise = "none" THEN 0 ELSE 1))
  /\ [](rpc = "settled" => promise \in {"resolved", "rejected"})
  /\ [](promise = "resolved" =>
          /\ stream.events = <<"finish">>
          /\ rpc = "settled"
          /\ stamped = pages
          /\ \A p \in 1..pages : footers[p] # <<>>)
  /\ [](stream.events = <<"error">> => promise = "rejected")
  /\ [](stream.events # <<>> => (stream.listening /\ ~stream.lost))
  /\ [][(promise \in {"resolved", "rejected"}) => (promise' = promise)]_rvars

\* the stream failed after a document of two pages was ended
C26_Witness ==
  /\ stream.events = <<"error">>
  /\ promise = "rejected"
  /\ stamped = 2
  /\ pages = 2

\* the order in which main writes the output files
WriteOrder == <<"summary", "cover", "md", "pdf">>

\* C25: the output files are written in the order summary, cover-letter
\* text, resume Markdown, resume PDF, each only after the earlier ones, so
\* the files that exist are always a prefix of that order, and a file that
\* was written is neither removed nor rewritten by a later step or failure
C25_FilesWrittenInOrder ==
  /\ [](\A i \in 2..Len(WriteOrder) :
          files[WriteOrder[i]].exists => files[WriteOrder[i - 1]].exists)
  /\ [][\A f \in FileNames : files[f].exists => (files'[f] = files[f])]_vars

\* the run failed in the resume step, after summary and cover letter were
\* written
C25_Witness ==
  /\ pc = "done"
  /\ exitCode = 1
  /\ files["summary"].exists
  /\ files["cover"].exists
  /\ ~files["md"].exists
  /\ ~files["pdf"].exists

\* the line of the example: - **Bold** item [link](http://x.test)
ExampleLine == LineTable[6]

Classes(runs) == [i \in DOMAIN runs |-> runs[i].class]

\* C22: a bullet or paragraph line is split into a non-empty ordered
\* sequence of segments that together are the line; each segment is one of
\* link, bare URL, bold span (a whole match of the markup pattern) or plain
\* text (holding no match); every run but the last is written continued and
\* the last one not; the example line gives plain, bold, plain, link
C22_SegmentsContinuedButLast ==
  (fn = "line" /\ out.applied /\ out.line.kind \in {"bullet", "paragraph"}) =>
    LET runs == out.line.runs
        parts == Parts(arg.text)
        n == Len(runs)
    IN /\ n >= 1
       /\ n = Len(parts)
       /\ Flatten(parts) = arg.text
       /\ \A i \in 1..n :
            /\ parts[i] # <<>>
            /\ runs[i].class \in {"link", "url", "bold", "plain"}
            /\ runs[i].class = "plain" <=>
                 \A k \in 1..Len(parts[i]) : MatchEnd(parts[i], k) = 0
            /\ runs[i].class # "plain" => MatchEnd(parts[i], 1) = Len(parts[i])
            /\ runs[i].class = "link" => parts[i][1] = "["
            /\ runs[i].class = "bold" => parts[i][1] = "*"
            /\ runs[i].class = "url" => parts[i][1] = "h"
            /\ runs[i].continued <=> (i < n)
       /\ arg.text = ExampleLine =>
            Classes(runs) = <<"plain", "bold", "plain", "link">>

\* the example line was converted: four runs, the link run alone ends the
\* paragraph
C22_Witness ==
  /\ fn = "line"
  /\ out.applied
  /\ arg.text = ExampleLine
  /\ Len(out.line.runs) = 4
  /\ out.line.runs[2].text = <<"B", "o", "l", "d">>
  /\ out.line.runs[4].link = <<"h", "t", "t", "p", ":", "/", "/", "x", ".", "t", "e", "s", "t">>
  /\ [i \in 1..4 |-> out.line.runs[i].continued] = <<TRUE, TRUE, TRUE, FALSE>>

\* a text without the sentence punctuation at its end
RECURSIVE WithoutTrailingPunctuation(_)
WithoutTrailingPunctuation(t) ==
  IF t # <<>> /\ t[Len(t)] \in SentencePunctuation
    THEN WithoutTrailingPunctuation(SubSeq(t, 1, Len(t) - 1))
    ELSE t

\* C23: the link target of a bare-URL segment is the matched text with its
\* trailing sentence punctuation stripped, so the target never ends in one
\* of . , ; : ! ?
C23_UrlTargetWithoutTrailingPunctuation ==
  (fn = "line" /\ out.applied /\ out.line.kind \in {"bullet", "paragraph"}) =>
    LET runs == out.line.runs
        parts == Parts(arg.text)
    IN \A i \in 1..Len(runs) :
         runs[i].class = "url" =>
           /\ runs[i].link = WithoutTrailingPunctuation(parts[i])
           /\ runs[i].link # <<>>
           /\ Last(runs[i].link) \notin SentencePunctuation

\* C24: a line is skipped when it is blank or white space only, else it is
\* a level-1, level-2 or level-3 heading by its prefix "# ", "## ", "### ",
\* else a bullet by the prefix "- ", else a paragraph; a skipped line
\* writes nothing, a bullet is written with the marker, left alignment and
\* the fixed indent, a paragraph justified without indent
C24_LineClassification ==
  (fn = "line" /\ out.applied) =>
    LET line == arg.text
        o == out.line
        blank == \A i \in 1..Len(line) : line[i] \in WhiteSpace
        expected ==
          IF blank THEN "skipped"
          ELSE IF StartsWith(line, <<"#", " ">>) THEN "h1"
          ELSE IF StartsWith(line, <<"#", "#", " ">>) THEN "h2"
          ELSE IF StartsWith(line, <<"#", "#", "#", " ">>) THEN "h3"
          ELSE IF StartsWith(line, <<"-", " ">>) THEN "bullet"
          ELSE "paragraph"
    IN /\ o.kind = expected
       /\ o.kind = "skipped" => o.runs = <<>>
       /\ o.kind \in {"h1", "h2", "h3"} =>
            /\ Len(o.runs) = 1
            /\ ~o.runs[1].continued
            /\ line = (CASE o.kind = "h1" -> <<"#", " ">>
                         [] o.kind = "h2" -> <<"#", "#", " ">>
                         [] o.kind = "h3" -> <<"#", "#", "#", " ">>)
                         \o o.runs[1].text
       /\ o.kind = "bullet" =>
            /\ o.align = "left"
            /\ o.indent = BulletIndent
            /\ StartsWith(o.runs[1].text, BulletMarker \o <<" ">>)
       /\ o.kind = "paragraph" =>
            /\ o.align = "justify"
            /\ o.indent = 0

\* a line of three marks, a space and a letter was taken as a level-3
\* heading
C24_Witness ==
  /\ fn = "line"
  /\ out.applied
  /\ arg.text = <<"#", "#", "#", " ", "a">>
  /\ out.line.kind = "h3"
  /\ out.line.runs[1].text = <<"a">>

\* what is to be seen of a segment once its markup delimiters are removed:
\* the text of a link, the inside of a bold span, the segment itself
\* otherwise
Visible(part) ==
  IF IsLinkPart(part)
    THEN SubSeq(part, 2, IndexOf(part, <<"]", "(">>, 2) - 1)
  ELSE IF IsBoldPart(part)
    THEN SubSeq(part, 3, Len(part) - 2)
  ELSE part

\* C27: the visible texts of the runs of a bullet or paragraph line, put
\* together in order, are the text of the line without the ** of its bold
\* spans and the [ ]( url ) of its links; no other character is dropped,
\* duplicated or moved
C27_VisibleTextPreserved ==
  (fn = "line" /\ out.applied /\ out.line.kind \in {"bullet", "paragraph"}) =>
    LET runs == out.line.runs
        parts == Parts(arg.text)
    IN Flatten([i \in DOMAIN runs |-> runs[i].text])
         = Flatten([i \in DOMAIN parts |-> Visible(parts[i])])

\* a name fit for a folder or a file: not empty, at most 50 characters,
\* lowercase letters, digits and hyphens only, no two hyphens in a row and
\* no hyphen at either end
WellFormedName(name) ==
  /\ name # <<>>
  /\ Len(name) <= MaxNameLength
  /\ \A i \in 1..Len(name) : name[i] \in NameChars
  /\ \A i \in 1..(Len(name) - 1) : ~(name[i] = "-" /\ name[i + 1] = "-")
  /\ name[1] # "-"
  /\ Last(name) # "-"

\* C28: getSuggestedNames never throws; after a service error, a malformed
\* response or a response with fewer than three usable lines it returns the
\* default names made from the date; every name it returns is well formed
C28_NamesNeverFail ==
  (fn = "names" /\ out.applied) =>
    LET r == out.names
        lines == CleanedNameLines(arg.text)
        usable == {i \in 1..Len(lines) : i <= 3 /\ WellFormedName(lines[i])}
    IN /\ ~r.threw
       /\ (arg.outcome # "ok" \/ Cardinality(usable) < 3) =>
            /\ r.fallback
            /\ r.names = DefaultNames(arg.timestamp)
       /\ WellFormedName(r.names.folder)
       /\ WellFormedName(r.names.resume)
       /\ WellFormedName(r.names.coverLetter)
       /\ ~r.fallback =>
            r.names = Names(lines[1], lines[2], lines[3])

\* a response of three lines was cleaned of capitals, blanks and marks and
\* its names were returned
C28_Witness ==
  /\ fn = "names"
  /\ out.applied
  /\ ~out.names.fallback
  /\ arg.text = <<"a", "\n", " ", "A", "a", "-", "c", "!", " ", "\n",
                  "a", "-", "b", "1">>
  /\ out.names.names = Names(<<"a">>, <<"a", "-", "c">>, <<"a", "-", "b", "1">>)

\* s with every character a replaced by b
Replace(s, a, b) == [i \in DOMAIN s |-> IF s[i] = a THEN b ELSE s[i]]

\* the characters of a text that are neither spaces nor newlines, in order
Ink(s) == SelectSeq(s, LAMBDA c : c \notin {" ", "\n"})

\* the words of a line are separated by single spaces, with no space at
\* either end
SingleSpaced(line) ==
  line = <<>> \/ \A i \in DOMAIN Split(line, " ") : Split(line, " ")[i] # <<>>

\* wrapping a line kept its characters (a newline for a space) and brought
\* in no empty line
WrappedFaithfully(line, width) ==
  LET w == WrapLine(line, width)
  IN /\ Replace(w, "\n", " ") = line
     /\ line # <<>> => \A i \in DOMAIN Split(w, "\n") : Split(w, "\n")[i] # <<>>

\* C29: wrapText returns every input line of length <= width unchanged,
\* and, when no space-delimited word of the input is longer than width,
\* every line of its output has length <= width
C29_WrapWithinWidth ==
  (fn = "wrap" /\ out.applied) =>
    LET width == arg.width
        lines == Split(arg.text, "\n")
        outLines == Split(out.text, "\n")
        fits == \A i \in DOMAIN lines :
                  \A k \in DOMAIN Split(lines[i], " ") :
                    Len(Split(lines[i], " ")[k]) <= width
    IN /\ out.text = Join([i \in DOMAIN lines |-> WrapLine(lines[i], width)], "\n")
       /\ \A i \in DOMAIN lines :
            Len(lines[i]) <= width => WrapLine(lines[i], width) = lines[i]
       /\ (\A i \in DOMAIN lines : Len(lines[i]) <= width) => out.text = arg.text
       /\ fits => \A i \in DOMAIN outLines : Len(outLines[i]) <= width

\* a line of three words was wrapped to the width of two of them
C29_Witness ==
  /\ fn = "wrap"
  /\ out.applied
  /\ arg.width = 3
  /\ arg.text = <<"a", " ", "a", " ", "a">>
  /\ out.text = <<"a", " ", "a", "\n", "a">>

\* C30 as stated: wrapText is idempotent, and for every input line
\* replacing the newlines it inserted by single spaces gives the line back,
\* no word or space being lost and no blank line brought in
C30_Original ==
  (fn = "wrap" /\ out.applied) =>
    /\ out.again = out.text
    /\ \A i \in DOMAIN Split(arg.text, "\n") :
         WrappedFaithfully(Split(arg.text, "\n")[i], arg.width)

\* C30: wrapText is idempotent and changes white space only: the
\* characters other than spaces and newlines are kept in order; for a line
\* whose words are separated by single spaces, with no space at either
\* end, replacing the inserted newlines by spaces gives the line back and
\* no blank line is brought in
C30_WrapChangesWhiteSpaceOnly ==
  (fn = "wrap" /\ out.applied) =>
    /\ out.again = out.text
    /\ Ink(out.text) = Ink(arg.text)
    /\ \A i \in DOMAIN Split(arg.text, "\n") :
         SingleSpaced(Split(arg.text, "\n")[i]) =>
           WrappedFaithfully(Split(arg.text, "\n")[i], arg.width)

\* a single-spaced line was broken at both of its spaces
C30_Witness ==
  /\ fn = "wrap"
  /\ out.applied
  /\ arg.width = 3
  /\ arg.text = <<"a", " ", "a", "a", " ", "a">>
  /\ out.text = <<"a", "\n", "a", "a", "\n", "a">>
  /\ out.again = out.text

====
